---- MODULE Spec2Model ----
(***************************************************************************)
(* Model of the g4-driver firmware's control core: the control-mode        *)
(* coordinator (tasks/motor_control.rs), the TIM4 Hall capture interrupt   *)
(* (hall_tim.rs), the Hall position estimator, the PI speed controller,    *)
(* the six-step open-loop starter, the calibrator and the command/monitor  *)
(* tasks that write the shared flags.                                      *)
(*                                                                         *)
(* Numbers.  The firmware computes in f32; the model computes in integers: *)
(*   angles   in degrees (TAU = 360),                                      *)
(*   time     in control ticks (dt = 1),                                   *)
(*   speed    in integer speed units,                                      *)
(*   voltage  in integer volts.                                            *)
(* Durations are compressed so that a start-up ramp, a stall timeout and a *)
(* calibration session each take a handful of ticks: every definition      *)
(* marked "scaled" stands for the source literal named beside it.  The     *)
(* control flow, the order of the statements and the comparisons are those *)
(* of the source.                                                          *)
(***************************************************************************)
EXTENDS Integers, Sequences, FiniteSets, TLC

\* ------------------------------------------------------------------------
\* Program constants
\* ------------------------------------------------------------------------

\* core::f32::consts::TAU and PI, in degrees
TAU == 360
PI == 180

\* config/params.rs
DEFAULT_POLE_PAIRS == 1            \* scaled: 6 in the source
DEFAULT_MAX_VOLTAGE == 24
DEFAULT_V_DC_BUS == 24
DEFAULT_MAX_DUTY == 100
MIN_VOLTAGE == 5
MIN_VOLTAGE_ERROR_THRESHOLD == 2   \* scaled: 10.0 RPM in the source
MAX_DELTA_SPEED == 1               \* scaled: MAX_SPEED_ACCELERATION * dt
STOP_SPEED == 1                    \* the 1.0 RPM "stopped" threshold
DEFAULT_DUTY_RATIO == 80

\* state.rs: the initial TARGET_SPEED (1000.0 RPM in the source), scaled
INITIAL_TARGET_SPEED == 2

\* config/params.rs gains, scaled to volts per speed unit (0.8 and 0.1 * dt)
DEFAULT_SPEED_KP == 24
DEFAULT_SPEED_KI == 24

\* hall_tim.rs
TIMEOUT_OVERFLOWS == 0             \* scaled: 2600 in the source
NO_STATE == 255                    \* HALL_STATE_TABLE's invalid marker
ARR_COUNTS == 65536                \* overflow << 16
SPEED_FACTOR == 131072             \* scaled: SYSTEM_CLOCK_HZ * 60 / 6

\* hall_sensor.rs, scaled: the speed filter alpha = FILTER_NUM / FILTER_DEN
\* (0.05 in the source) and the interpolation gain (speed * TAU / 60 per
\* second in the source; TAU / INTERP_DIV per speed unit and tick here)
FILTER_NUM == 1
FILTER_DEN == 2
INTERP_DIV == 1440

\* transforms.rs / svpwm.rs: fixed point with three decimals; SQRT3 = 1.732
MILLI == 1000
SQRT3_MILLI == 1732

\* openloop_six_step.rs, scaled: the step periods in ticks at the initial
\* and the target RPM (50 and 500 in the source), the decay factor
\* acceleration_rate = ACCEL_NUM / ACCEL_DEN of the step period, and the
\* numerator of get_current_rpm (60 s/min in the source)
INITIAL_STEP_PERIOD == 2
MIN_STEP_PERIOD == 1
ACCEL_NUM == 2
ACCEL_DEN == 3
RPM_FACTOR == 12

\* calibration.rs, scaled: the requested position's step per update while
\* searching and measuring (0.002 rad in the source) and while returning
\* (0.004 rad), the settle time of a sector (25 updates), the movement
\* threshold (0.1 rad: the whole degrees below it are those below 6) and
\* the torque MotorCalibration::new is given (0.2), in percent
FIND_STEP == 180
RETURN_STEP == 180
SETTLE_TICKS == 1
MOVE_THRESHOLD == 6
CALIBRATION_TORQUE_PCT == 20

\* ------------------------------------------------------------------------
\* Bounds of the model
\* ------------------------------------------------------------------------

\* |rotations| of a ShaftPosition explored (an i32 in the source)
MaxRot == 1
\* |rotations| of the calibrator's requested position explored where a
\* calibration is followed to its end (twelve half turns measure six sectors)
MaxCalRot == 7
\* control ticks that run without a TIM4 interrupt in between
\* (time_since_edge is an f32 that grows without bound in the source)
MaxSinceEdge == 1
\* TIM4 overflows counted after a Hall edge (OVERFLOW_COUNTER is a u32 that
\* keeps counting in the source)
MaxOverflow == 1
\* the estimator alone: updates between two resets of time_since_edge
MaxHallSinceEdge == 2
\* the TIM4 handler alone: overflows between two resets of the counter
MaxTimOverflow == 4
\* a ShaftPosition alone: full rotations either way, and the length of the
\* recorded sample sequence
MaxShaftRot == 2
MaxSamples == 4
\* a PiController alone: the size of the integral
MaxIntegral == 30

Abs(x) == IF x < 0 THEN -x ELSE x
Min(a, b) == IF a < b THEN a ELSE b
Max(a, b) == IF a > b THEN a ELSE b

\* Rust's integer/float division and remainder truncate toward zero
TDiv(a, b) == IF a >= 0 THEN a \div b ELSE -((-a) \div b)
TRem(a, b) == a - b * TDiv(a, b)

\* ------------------------------------------------------------------------
\* foc/shaft_position.rs
\* ------------------------------------------------------------------------

ShaftPosition_new == [angle |-> 0, rotations |-> 0, inversed |-> FALSE, prev_angle |-> 0]

\* ShaftPosition::clamp
clamp(angle) ==
  LET normalized == TRem(angle, TAU)
  IN IF normalized < 0 THEN normalized + TAU ELSE normalized

\* ShaftPosition::reset (the inversed flag is kept)
ShaftPosition_reset(p) == [p EXCEPT !.angle = 0, !.rotations = 0, !.prev_angle = 0]

set_inversed(p, inv) == [p EXCEPT !.inversed = inv]

\* ShaftPosition::update_shaft_angle
update_shaft_angle(p, sensor_angle) ==
  LET a1 == IF p.inversed THEN TAU - sensor_angle ELSE sensor_angle
      a2 == clamp(a1)
      delta == a2 - p.prev_angle
      rot == IF 2 * delta < -TAU THEN p.rotations + 1
             ELSE IF 2 * delta > TAU THEN p.rotations - 1
             ELSE p.rotations
  IN [p EXCEPT !.rotations = rot, !.prev_angle = a2, !.angle = a2]

\* an increment that wraps the angle without counting the rotation
increment_keeps_rotations(p, delta_angle) ==
  [p EXCEPT !.angle = clamp(p.angle + delta_angle), !.prev_angle = clamp(p.angle + delta_angle)]

\* ShaftPosition::increment; the two while loops, for |delta_angle| < TAU
increment(p, delta_angle) ==
  LET new_angle == p.angle + delta_angle
      up == IF new_angle >= TAU THEN new_angle \div TAU ELSE 0
      a1 == new_angle - up * TAU
      down == IF a1 < 0 THEN ((-a1) + TAU - 1) \div TAU ELSE 0
      a2 == a1 + down * TAU
  IN [p EXCEPT !.angle = a2, !.prev_angle = a2, !.rotations = p.rotations + up - down]

\* a position that forgets the full rotations
get_position_angle_only(p) == p.angle

get_position(p) == p.rotations * TAU + p.angle

\* ------------------------------------------------------------------------
\* foc/calibration.rs
\* ------------------------------------------------------------------------

\* Option<f32>::None of sector_angles (recorded angles are >= 0)
None == 0 - 1

Sectors == 1..6

CalibrationResult_new == [electrical_offset |-> 0, direction_inversed |-> FALSE, success |-> FALSE]

NoSectors == [i \in Sectors |-> None]

\* MotorCalibration::new(pole_pairs, 0.2)
MotorCalibration_new ==
  [state |-> "Init",
   torque |-> CALIBRATION_TORQUE_PCT,
   shaft_position_req |-> ShaftPosition_new,
   shaft_position_act |-> ShaftPosition_new,
   result |-> CalibrationResult_new,
   sector_angles |-> NoSectors,
   prev_hall_sector |-> 0,
   sector_wait_counter |-> 0]

\* a start that leaves the state where it is
MotorCalibration_start_keeps_state(c) ==
  [c EXCEPT !.shaft_position_req = ShaftPosition_reset(@),
            !.shaft_position_act = ShaftPosition_reset(@),
            !.result = CalibrationResult_new,
            !.sector_angles = NoSectors,
            !.prev_hall_sector = 0,
            !.sector_wait_counter = 0]

\* MotorCalibration::start
MotorCalibration_start(c) ==
  [c EXCEPT !.state = "Init",
            !.shaft_position_req = ShaftPosition_reset(@),
            !.shaft_position_act = ShaftPosition_reset(@),
            !.result = CalibrationResult_new,
            !.sector_angles = NoSectors,
            !.prev_hall_sector = 0,
            !.sector_wait_counter = 0]

is_completed(c) == c.state = "Completed"

\* EXPECTED_ANGLES: sector 1 = 0 deg, 2 = 60 deg, ... 6 = 300 deg
EXPECTED_ANGLES(sector) == (sector - 1) * (PI \div 3)

\* the two while loops of calculate_offset: into [-PI, PI]
RECURSIVE NormalizePi(_)
NormalizePi(offset) ==
  IF offset > PI THEN NormalizePi(offset - TAU)
  ELSE IF offset < -PI THEN NormalizePi(offset + TAU)
  ELSE offset

RECURSIVE OffsetSum(_, _)
OffsetSum(angles, sector) ==
  IF sector > 6 THEN 0
  ELSE (IF angles[sector] # None
        THEN NormalizePi(angles[sector] * DEFAULT_POLE_PAIRS
                         - EXPECTED_ANGLES(sector) * DEFAULT_POLE_PAIRS)
        ELSE 0) + OffsetSum(angles, sector + 1)

\* MotorCalibration::calculate_offset: the new result.electrical_offset
calculate_offset(angles) ==
  LET count == Cardinality({i \in Sectors : angles[i] # None})
  IN IF count > 0 THEN clamp(TDiv(OffsetSum(angles, 1), count)) ELSE 0

\* what update returns: Ok((electrical_angle, torque)) or Err(())
Ok(c, angle, torque) == [cal |-> c, ok |-> TRUE, electrical_angle |-> angle, torque |-> torque]
Err(c) == [cal |-> c, ok |-> FALSE, electrical_angle |-> 0, torque |-> 0]

CalInit(c) ==
  Ok([c EXCEPT !.shaft_position_req = ShaftPosition_reset(@),
               !.shaft_position_act = ShaftPosition_reset(@),
               !.result.electrical_offset = 0,
               !.sector_angles = NoSectors,
               !.prev_hall_sector = 0,
               !.sector_wait_counter = 0,
               !.state = "FindDirection"], 0, 0)

CalFindDirection(c) ==
  IF c.shaft_position_req.rotations >= 1
  THEN IF c.shaft_position_act.rotations = 0 /\ c.shaft_position_act.angle < MOVE_THRESHOLD
       THEN Err([c EXCEPT !.state = "Completed", !.result.success = FALSE])
       ELSE LET inv == get_position(c.shaft_position_act) < 0
                c1 == [c EXCEPT !.shaft_position_act = set_inversed(@, inv),
                                !.result.direction_inversed = inv,
                                !.state = "MeasureSectors"]
            IN Ok(c1, c1.shaft_position_req.angle * DEFAULT_POLE_PAIRS, c1.torque)
  ELSE LET c1 == [c EXCEPT !.shaft_position_req = increment(@, FIND_STEP)]
       IN Ok(c1, c1.shaft_position_req.angle * DEFAULT_POLE_PAIRS, c1.torque)

\* a MeasureSectors that records a sector on the tick it is entered
CalMeasureSectors_no_settle(c, current_hall) ==
  LET c1 == IF current_hall \in 1..6 /\ c.sector_angles[current_hall] = None
            THEN [c EXCEPT !.prev_hall_sector = current_hall,
                           !.sector_angles[current_hall] = c.shaft_position_act.angle]
            ELSE c
      c2 == IF \A i \in Sectors : c1.sector_angles[i] # None
            THEN [c1 EXCEPT !.state = "ReturnToStart"]
            ELSE c1
      c3 == [c2 EXCEPT !.shaft_position_req = increment(@, FIND_STEP)]
  IN Ok(c3, c3.shaft_position_req.angle * DEFAULT_POLE_PAIRS, c3.torque)

\* a MeasureSectors that finishes without the return to the start position
CalMeasureSectors_skips_return(c, current_hall) ==
  IF current_hall \in 1..6 /\ c.sector_wait_counter >= SETTLE_TICKS
  THEN Ok([c EXCEPT !.state = "Completed", !.result.success = TRUE], 0, 0)
  ELSE Ok([c EXCEPT !.sector_wait_counter = @ + 1,
                    !.shaft_position_req = increment(@, FIND_STEP)], 0, c.torque)

CalMeasureSectors(c, current_hall) ==
  LET c1 == IF current_hall \in 1..6 /\ current_hall # c.prev_hall_sector
            THEN [c EXCEPT !.prev_hall_sector = current_hall, !.sector_wait_counter = 0]
            ELSE c
      c2 == IF current_hall \in 1..6
            THEN IF c1.sector_wait_counter < SETTLE_TICKS
                 THEN [c1 EXCEPT !.sector_wait_counter = @ + 1]
                 ELSE IF c1.sector_angles[current_hall] = None
                      THEN LET angles == [c1.sector_angles EXCEPT
                                            ![current_hall] = c1.shaft_position_act.angle]
                           IN IF \A i \in Sectors : angles[i] # None
                              THEN [c1 EXCEPT !.sector_angles = angles,
                                              !.result.electrical_offset = calculate_offset(angles),
                                              !.state = "ReturnToStart"]
                              ELSE [c1 EXCEPT !.sector_angles = angles]
                      ELSE c1
            ELSE c1
      c3 == [c2 EXCEPT !.shaft_position_req = increment(@, FIND_STEP)]
  IN Ok(c3, c3.shaft_position_req.angle * DEFAULT_POLE_PAIRS, c3.torque)

\* a ReturnToStart that completes with the calibration torque still applied
CalReturnToStart_keeps_torque(c) ==
  IF c.shaft_position_req.rotations = 0 /\ 4 * c.shaft_position_req.angle < TAU
  THEN Ok([c EXCEPT !.state = "Completed", !.result.success = TRUE], 0, c.torque)
  ELSE LET c1 == [c EXCEPT !.shaft_position_req = increment(@, -RETURN_STEP)]
       IN Ok(c1, c1.shaft_position_req.angle * DEFAULT_POLE_PAIRS, c1.torque)

CalReturnToStart(c) ==
  IF c.shaft_position_req.rotations = 0 /\ 4 * c.shaft_position_req.angle < TAU
  THEN Ok([c EXCEPT !.state = "Completed", !.result.success = TRUE], 0, 0)
  ELSE LET c1 == [c EXCEPT !.shaft_position_req = increment(@, -RETURN_STEP)]
       IN Ok(c1, c1.shaft_position_req.angle * DEFAULT_POLE_PAIRS, c1.torque)

\* MotorCalibration::update(sensor_angle); current_hall is what
\* hall_tim::get_hall_state() returns inside MeasureSectors
MotorCalibration_update(c, sensor_angle, current_hall) ==
  LET c0 == [c EXCEPT !.shaft_position_act = update_shaft_angle(@, sensor_angle)]
  IN CASE c0.state = "Init" -> CalInit(c0)
       [] c0.state = "FindDirection" -> CalFindDirection(c0)
       [] c0.state = "MeasureSectors" -> CalMeasureSectors(c0, current_hall)
       [] c0.state = "ReturnToStart" -> CalReturnToStart(c0)
       [] c0.state = "Completed" -> Ok(c0, 0, 0)

\* ------------------------------------------------------------------------
\* hall_tim.rs: pure helpers
\* ------------------------------------------------------------------------

\* calculate_speed_rpm
calculate_speed_rpm(period_cycles, pole_pairs) ==
  IF period_cycles = 0 THEN 0
  ELSE TDiv(TDiv(SPEED_FACTOR, period_cycles), pole_pairs)

\* ------------------------------------------------------------------------
\* foc/hall_sensor.rs
\* ------------------------------------------------------------------------

\* a table that sends raw codes 2 and 3 to the same index
HALL_STATE_TABLE_collides(raw) ==
  CASE raw = 1 -> 0
    [] raw = 2 -> 1
    [] raw = 3 -> 1
    [] raw = 4 -> 4
    [] raw = 5 -> 5
    [] raw = 6 -> 3
    [] OTHER -> 255

\* HALL_STATE_TABLE
HALL_STATE_TABLE(raw) ==
  CASE raw = 1 -> 0
    [] raw = 2 -> 2
    [] raw = 3 -> 1
    [] raw = 4 -> 4
    [] raw = 5 -> 5
    [] raw = 6 -> 3
    [] OTHER -> NO_STATE

is_valid_state(state) == state \in 1..6

\* HallSensor::new(pole_pairs, alpha) followed by set_electrical_offset
HallSensor_new(pole_pairs, offset) ==
  [prev_state |-> NO_STATE,
   mechanical_angle |-> 0,
   hall_idx_base |-> 0,
   hall_idx_max |-> pole_pairs * 6,
   angle_per_state |-> TAU \div (pole_pairs * 6),
   speed_rpm |-> 0,
   time_since_edge |-> 0,
   pole_pairs |-> pole_pairs,
   enable_interpolation |-> TRUE,
   electrical_offset |-> offset]

\* a reset that keeps the filtered speed
HallSensor_reset_keeps_speed(h) ==
  [h EXCEPT !.prev_state = NO_STATE, !.mechanical_angle = 0, !.hall_idx_base = 0,
            !.time_since_edge = 0]

\* HallSensor::reset
HallSensor_reset(h) ==
  [h EXCEPT !.prev_state = NO_STATE, !.mechanical_angle = 0, !.hall_idx_base = 0,
            !.speed_rpm = 0, !.time_since_edge = 0]

\* HallSensor::reset_speed_filter
reset_speed_filter(h, new_speed) == [h EXCEPT !.speed_rpm = new_speed, !.time_since_edge = 0]

set_electrical_offset(h, offset) == [h EXCEPT !.electrical_offset = offset]

get_electrical_angle(h) == h.mechanical_angle * h.pole_pairs - h.electrical_offset

\* the speed low-pass filter: alpha * instant + (1 - alpha) * old
FilterSpeed(instant_rpm, old) ==
  TDiv(FILTER_NUM * instant_rpm + (FILTER_DEN - FILTER_NUM) * old, FILTER_DEN)

\* an angle left as computed
WrapDown_skipped(angle) == angle

\* while angle >= TAU { angle -= TAU }
RECURSIVE WrapDown(_)
WrapDown(angle) == IF angle >= TAU THEN WrapDown(angle - TAU) ELSE angle

\* while angle < 0 { angle += TAU }
RECURSIVE WrapUp(_)
WrapUp(angle) == IF angle < 0 THEN WrapUp(angle + TAU) ELSE angle

\* an invalid-code branch that drops the held angle
UpdateInvalid_zeroes_angle(h, timeout) ==
  IF timeout THEN [h EXCEPT !.speed_rpm = 0, !.time_since_edge = 0, !.mechanical_angle = 0]
  ELSE [h EXCEPT !.time_since_edge = @ + 1, !.mechanical_angle = 0]

\* the branch of update for an invalid raw code
UpdateInvalid(h, timeout) ==
  IF timeout THEN [h EXCEPT !.speed_rpm = 0, !.time_since_edge = 0]
  ELSE [h EXCEPT !.time_since_edge = @ + 1]

\* a timeout branch that keeps the filtered speed
UpdateTimeout_keeps_speed(h, normalized_state) ==
  [h EXCEPT !.time_since_edge = 0,
            !.mechanical_angle = WrapDown((h.hall_idx_base + normalized_state) * h.angle_per_state)]

\* the branch of update for a valid code with timeout or period 0
UpdateTimeout(h, normalized_state) ==
  [h EXCEPT !.speed_rpm = 0, !.time_since_edge = 0,
            !.mechanical_angle = WrapDown((h.hall_idx_base + normalized_state) * h.angle_per_state)]

\* hall_idx_base after a state change
NextIdxBase(h, normalized_state) ==
  IF normalized_state = 0 /\ h.prev_state = 5
  THEN IF h.hall_idx_base + 6 >= h.hall_idx_max THEN 0 ELSE h.hall_idx_base + 6
  ELSE IF normalized_state = 5 /\ h.prev_state = 0
  THEN IF h.hall_idx_base < 6 THEN h.hall_idx_max - 6 ELSE h.hall_idx_base - 6
  ELSE h.hall_idx_base

\* the normal branch of update
UpdateValid(h, normalized_state, period_cycles) ==
  LET instant_rpm == calculate_speed_rpm(period_cycles, h.pole_pairs)
      state_changed == normalized_state # h.prev_state /\ h.prev_state # NO_STATE
      h1 == IF state_changed
            THEN [h EXCEPT !.hall_idx_base = NextIdxBase(h, normalized_state),
                           !.speed_rpm = FilterSpeed(instant_rpm, @),
                           !.time_since_edge = 0,
                           !.prev_state = normalized_state]
            ELSE [h EXCEPT !.time_since_edge = @ + 1,
                           !.speed_rpm = FilterSpeed(instant_rpm, @)]
      base_mechanical_angle == (h1.hall_idx_base + normalized_state) * h1.angle_per_state
      angle == IF h1.enable_interpolation /\ Abs(h1.speed_rpm) > STOP_SPEED
               THEN base_mechanical_angle
                    + TDiv(h1.speed_rpm * TAU * h1.time_since_edge, INTERP_DIV)
               ELSE base_mechanical_angle
  IN [h1 EXCEPT !.mechanical_angle = WrapUp(WrapDown(angle))]

\* HallSensor::update(dt): the new estimator; it returns
\* (get_electrical_angle, speed_rpm) of the new estimator.
\* raw, period and timeout are what hall_tim's getters return.
HallSensor_update(h, raw_hall_state, period_cycles, timeout) ==
  IF ~is_valid_state(raw_hall_state) THEN UpdateInvalid(h, timeout)
  ELSE IF HALL_STATE_TABLE(raw_hall_state) = NO_STATE THEN h
  ELSE IF timeout \/ period_cycles = 0
       THEN UpdateTimeout(h, HALL_STATE_TABLE(raw_hall_state))
       ELSE UpdateValid(h, HALL_STATE_TABLE(raw_hall_state), period_cycles)

\* ------------------------------------------------------------------------
\* foc/pi_controller.rs
\* ------------------------------------------------------------------------

\* PiController::new_symmetric
PiController_new_symmetric(kp, ki, output_limit) ==
  [kp |-> kp, ki |-> ki, integral |-> 0,
   output_min |-> -output_limit, output_max |-> output_limit,
   last_output |-> 0, anti_windup_enabled |-> TRUE]

Clamp(x, lo, hi) == IF x < lo THEN lo ELSE IF x > hi THEN hi ELSE x

\* an update without anti-windup
PiController_update_winds_up(pi, setpoint, measured) ==
  LET error == setpoint - measured
      integral == pi.integral + error
  IN [pi EXCEPT !.integral = integral,
                !.last_output = Clamp(pi.kp * error + pi.ki * integral,
                                      pi.output_min, pi.output_max)]

\* PiController::update(setpoint, measured, dt): the new controller, whose
\* last_output is the value returned
PiController_update(pi, setpoint, measured) ==
  LET error == setpoint - measured
      p_term == pi.kp * error
      should_integrate == ~pi.anti_windup_enabled
                          \/ (pi.last_output > pi.output_min /\ pi.last_output < pi.output_max)
      integral == IF should_integrate THEN pi.integral + error ELSE pi.integral
      i_term == pi.ki * integral
  IN [pi EXCEPT !.integral = integral,
                !.last_output = Clamp(p_term + i_term, pi.output_min, pi.output_max)]

\* a reset that forgets to clear the integral
PiController_reset_keeps_integral(pi) == [pi EXCEPT !.last_output = 0]

\* PiController::reset
\* a reset that forgets only the integral
PiController_reset_keeps_output(pi) == [pi EXCEPT !.integral = 0]

PiController_reset(pi) == [pi EXCEPT !.integral = 0, !.last_output = 0]

set_gains(pi, kp, ki) == [pi EXCEPT !.kp = kp, !.ki = ki]

\* ------------------------------------------------------------------------
\* foc/openloop_six_step.rs
\* ------------------------------------------------------------------------

\* OpenLoopSixStep::new
OpenLoopSixStep_new ==
  [current_step |-> 0,
   step_period |-> INITIAL_STEP_PERIOD,
   initial_step_period |-> INITIAL_STEP_PERIOD,
   min_step_period |-> MIN_STEP_PERIOD,
   elapsed_time |-> 0,
   duty_ratio |-> DEFAULT_DUTY_RATIO,
   pole_pairs |-> DEFAULT_POLE_PAIRS]

\* a commutation table whose step 1 leaves phase V connected
get_step_state_shorted(step, duty) ==
  IF step % 6 = 1
  THEN [duty |-> <<duty, 0, 0>>, enable |-> <<TRUE, TRUE, TRUE>>]
  ELSE [duty |-> <<0, 0, duty>>, enable |-> <<FALSE, TRUE, TRUE>>]

\* OpenLoopSixStep::get_step_state: duties <<u, v, w>> and enables <<u, v, w>>
get_step_state(step, duty) ==
  CASE step % 6 = 0 -> [duty |-> <<duty, 0, 0>>, enable |-> <<TRUE, TRUE, FALSE>>]
    [] step % 6 = 1 -> [duty |-> <<duty, 0, 0>>, enable |-> <<TRUE, FALSE, TRUE>>]
    [] step % 6 = 2 -> [duty |-> <<0, duty, 0>>, enable |-> <<FALSE, TRUE, TRUE>>]
    [] step % 6 = 3 -> [duty |-> <<0, duty, 0>>, enable |-> <<TRUE, TRUE, FALSE>>]
    [] step % 6 = 4 -> [duty |-> <<0, 0, duty>>, enable |-> <<TRUE, FALSE, TRUE>>]
    [] step % 6 = 5 -> [duty |-> <<0, 0, duty>>, enable |-> <<FALSE, TRUE, TRUE>>]

\* a starter that shortens its step period without the clamp
Accelerate_undershoots(o) ==
  IF o.step_period > o.min_step_period
  THEN TDiv(o.step_period * ACCEL_NUM, ACCEL_DEN)
  ELSE o.step_period

\* a starter whose step period never shortens
Accelerate_stalls(o) == o.step_period

\* the shortened step period
Accelerate(o) ==
  IF o.step_period > o.min_step_period
  THEN Max(TDiv(o.step_period * ACCEL_NUM, ACCEL_DEN), o.min_step_period)
  ELSE o.step_period

\* OpenLoopSixStep::update(dt): the new starter (its step state is
\* get_step_state(current_step, duty_ratio))
OpenLoopSixStep_update(o) ==
  IF o.elapsed_time + 1 >= o.step_period
  THEN [o EXCEPT !.elapsed_time = 0,
                 !.current_step = (o.current_step + 1) % 6,
                 !.step_period = Accelerate(o)]
  ELSE [o EXCEPT !.elapsed_time = @ + 1]

\* a starter that reports its target reached from the first step
is_target_reached_always(o) == TRUE

is_target_reached(o) == o.step_period <= o.min_step_period

\* OpenLoopSixStep::reset
OpenLoopSixStep_reset(o) ==
  [o EXCEPT !.current_step = 0, !.step_period = o.initial_step_period, !.elapsed_time = 0]

get_current_rpm(o) == TDiv(RPM_FACTOR, o.step_period * 6 * o.pole_pairs)

\* ------------------------------------------------------------------------
\* foc/transforms.rs and foc/svpwm.rs
\* ------------------------------------------------------------------------

\* 1000 * sin(x deg) for 0 <= x <= 180 (Bhaskara's rational approximation
\* stands for idsp::cossin)
SinHalfTurn(x) == (4 * x * (PI - x) * MILLI) \div (40500 - x * (PI - x))

\* 1000 * sin and 1000 * cos of any angle in degrees
Sin1000(x) == LET a == clamp(x) IN IF a <= PI THEN SinHalfTurn(a) ELSE -SinHalfTurn(a - PI)
Cos1000(x) == Sin1000(x + 90)

\* inverse_park_idsp: theta above PI is lowered by TAU once, and the cast of
\* the phase to i32 saturates at -PI and +PI.  Result in millivolts.
inverse_park(vd, vq, theta) ==
  LET normalized_theta == IF theta > PI THEN theta - TAU ELSE theta
      phase == Clamp(normalized_theta, -PI, PI)
  IN [v_alpha |-> vd * Cos1000(phase) - vq * Sin1000(phase),
      v_beta |-> vd * Sin1000(phase) + vq * Cos1000(phase)]

\* integer square root
RECURSIVE SqrtFrom(_, _)
SqrtFrom(n, r) == IF (r + 1) * (r + 1) > n THEN r ELSE SqrtFrom(n, r + 1)
Sqrt(n) == SqrtFrom(n, 0)

\* limit_voltage
limit_voltage(vd, vq, max_voltage) ==
  LET magnitude == Sqrt(vd * vd + vq * vq)
  IN IF magnitude > max_voltage
     THEN [vd |-> TDiv(vd * max_voltage, magnitude), vq |-> TDiv(vq * max_voltage, magnitude)]
     ELSE [vd |-> vd, vq |-> vq]

\* a conversion that rounds but does not clamp
Duty_unclamped(t, max_duty) ==
  LET n == (t + MILLI) * max_duty
  IN IF n >= 0 THEN (n + MILLI) \div (2 * MILLI) ELSE -((-n + MILLI) \div (2 * MILLI))

\* roundf((t + 1.0) / 2.0 * max_duty).clamp(0, max_duty), t in thousandths
Duty(t, max_duty) ==
  LET n == (t + MILLI) * max_duty
      r == IF n >= 0 THEN (n + MILLI) \div (2 * MILLI) ELSE -((-n + MILLI) \div (2 * MILLI))
  IN Clamp(r, 0, max_duty)

\* calculate_svpwm; v_alpha and v_beta in millivolts, v_dc in volts
calculate_svpwm(v_alpha, v_beta, v_dc, max_duty) ==
  IF v_dc <= 0 THEN <<max_duty \div 2, max_duty \div 2, max_duty \div 2>>
  ELSE LET v_alpha_norm == TDiv(v_alpha, v_dc)
           v_beta_norm == TDiv(v_beta, v_dc)
           sqrt_3_alpha == TDiv(SQRT3_MILLI * v_alpha_norm, MILLI)
           x == v_beta_norm
           y == TDiv(v_beta_norm + sqrt_3_alpha, 2)
           z == TDiv(v_beta_norm - sqrt_3_alpha, 2)
           sector == CASE x >= 0 /\ y >= 0 /\ z < 0 -> 1
                       [] y >= 0 /\ z >= 0 -> 2
                       [] x >= 0 /\ y < 0 /\ z >= 0 -> 3
                       [] x < 0 /\ y < 0 /\ z >= 0 -> 4
                       [] y < 0 /\ z < 0 -> 5
                       [] OTHER -> 6
           t == CASE sector \in {1, 4} -> <<x - z, x + z, -x + z>>
                  [] sector \in {2, 5} -> <<y - z, y + z, -y - z>>
                  [] OTHER -> <<y - x, -y + x, -y - x>>
       IN <<Duty(t[1], max_duty), Duty(t[2], max_duty), Duty(t[3], max_duty)>>

\* ------------------------------------------------------------------------
\* State
\* ------------------------------------------------------------------------

VARIABLES
  \* hall_tim.rs atomics
  HALL_STATE, OVERFLOW_COUNTER, PERIOD_CYCLES, TIMEOUT_FLAG,
  \* state.rs shared cells
  MOTOR_ENABLE, CALIBRATION_REQUEST, TARGET_SPEED, SPEED_PI_GAINS,
  CONTROL_MODE, CALIBRATION_RESULT, MOTOR_STATUS,
  \* locals of motor_control_task
  hall_sensor, speed_pi, openloop, calibration, control_mode,
  ramped_target_speed, was_enabled,
  \* the TIM1 complementary PWM: duty and enable of channels 1..3
  uvw_pwm,
  \* what the control tick that has just ended did (cleared by every other
  \* step): the arm that ran, control_mode when the tick began, the Hall
  \* validity and timeout flag it read, whether it called calibration.start,
  \* whether it switched OpenLoop -> ClosedLoopFoc, whether it called
  \* speed_pi.update and with which measured speed, whether it wrote
  \* MOTOR_STATUS, whether its calibration.update returned Ok and the
  \* torque that update returned; of an estimator update called alone, the
  \* normalized index it saw in its normal branch, the filtered speed before
  \* it and the (electrical angle, speed) it returned; of the TIM4 handler
  \* run alone, its inputs and the overflows counted since the last Hall
  \* edge (counted up to MaxTimOverflow) and since the last Hall edge or
  \* reset_state; of a ShaftPosition method called alone, its argument,
  \* and the sensor angles given to update_shaft_angle since new() as long
  \* as nothing else was called and they are at most MaxSamples; of a
  \* PiController update called alone, its setpoint (arg), the measured
  \* value and the last_output it found; of calculate_svpwm called alone,
  \* its four arguments (arg); of calculate_offset called alone, the
  \* common angle and the spread of the six recorded angles (arg); when the
  \* tasks are followed from one lock operation to the next, the locks each
  \* task holds and the place each task is at; when the persisted
  \* configuration is followed, the last flash page, the cells
  \* RUNTIME_CONFIG, CONFIG_VERSION and CONFIG_CRC_VALID of state.rs, whether
  \* main has got past its start-up, and what read_config answered there;
  \* the raw code the estimator read in the last iteration (hall_seen)
  obs

hall_vars == <<HALL_STATE, OVERFLOW_COUNTER, PERIOD_CYCLES, TIMEOUT_FLAG>>
shared_vars == <<MOTOR_ENABLE, CALIBRATION_REQUEST, TARGET_SPEED, SPEED_PI_GAINS,
                 CONTROL_MODE, CALIBRATION_RESULT, MOTOR_STATUS>>
ctl_vars == <<hall_sensor, speed_pi, openloop, calibration, control_mode,
              ramped_target_speed, was_enabled, uvw_pwm>>
task_vars == <<ctl_vars, obs>>
vars == <<hall_vars, shared_vars, task_vars>>

\* inputs of the environment
\* the raw codes of one electrical revolution in rotation order
\* (hall_sensor.rs, the comment of HALL_STATE_TABLE)
HALL_SEQUENCE == <<1, 3, 2, 6, 4, 5>>
\* the code one sector after the valid code c
NextHall(c) == HALL_SEQUENCE[((CHOOSE k \in 1..6 : HALL_SEQUENCE[k] = c) % 6) + 1]
\* the codes a Hall edge brings after code c when the rotor turns one way:
\* the next sector, or the fault code 7 of a sensor that then stays dead;
\* the first edge after power-up brings any sector
RunCodes(c) == IF c = 7 THEN {} ELSE IF c \in 1..6 THEN {NextHall(c), 7} ELSE 1..6
\* the codes of a rotor that rests in one sector and whose sensor can read
\* the fault code 0
HallCodes == {0, 1}
\* the codes of a rotor that is turned by hand between two updates
CalCodes == 0..6
Captures == {0}
SpeedCommands == {0, INITIAL_TARGET_SPEED}

\* config/storage.rs: the persisted record, reduced to its header, the
\* tunables the model uses, the calibration result and the trailing CRC
CONFIG_MAGIC == 826754627
CONFIG_VERSION == 1

StoredConfig_default ==
  [magic |-> CONFIG_MAGIC, version |-> CONFIG_VERSION,
   speed_kp |-> DEFAULT_SPEED_KP, speed_ki |-> DEFAULT_SPEED_KI,
   max_voltage |-> DEFAULT_MAX_VOLTAGE,
   calibration_electrical_offset |-> 0, calibration_direction_inversed |-> FALSE,
   calibration_success |-> FALSE, crc32 |-> 0]

\* the CRC unit fed with every word before crc32; a 16-bit checksum stands
\* for the CRC-32 of the hardware
CrcModulus == 65521
calculate_crc(config) ==
  ( (config.magic % CrcModulus) + 3 * config.version + 5 * config.speed_kp
    + 7 * config.speed_ki + 11 * config.max_voltage
    + 13 * config.calibration_electrical_offset
    + (IF config.calibration_direction_inversed THEN 17 ELSE 0)
    + (IF config.calibration_success THEN 19 ELSE 0) ) % CrcModulus

validate_header(config) ==
  config.magic = CONFIG_MAGIC /\ config.version = CONFIG_VERSION

verify_crc(config) == calculate_crc(config) = config.crc32

\* an erased flash page reads as 0xFF in every byte (the words are kept in
\* 32 bits signed)
ErasedPage ==
  [magic |-> -1, version |-> 65535, speed_kp |-> -1, speed_ki |-> -1, max_voltage |-> -1,
   calibration_electrical_offset |-> -1, calibration_direction_inversed |-> TRUE,
   calibration_success |-> TRUE, crc32 |-> -1]

\* eeprom.rs read_config
read_config(flash) ==
  IF ~validate_header(flash) THEN [ok |-> FALSE, config |-> flash, err |-> "InvalidMagic"]
  ELSE IF ~verify_crc(flash) THEN [ok |-> FALSE, config |-> flash, err |-> "CrcMismatch"]
  ELSE [ok |-> TRUE, config |-> flash, err |-> "none"]

\* what the flash driver answers to the erase and the write of one page
FlashOutcomes == {"ok", "erase_error", "write_error"}

\* eeprom.rs write_config: the CRC is stored in the record, the page erased
\* and the record written
write_config(flash, config, outcome) ==
  LET stored == [config EXCEPT !.crc32 = calculate_crc(config)]
  IN [ok |-> outcome = "ok",
      config |-> stored,
      flash |-> CASE outcome = "ok" -> stored
                  [] outcome = "erase_error" -> flash
                  [] OTHER -> ErasedPage]

\* eeprom.rs initialize_default_config
initialize_default_config(flash, outcome) ==
  write_config(flash, StoredConfig_default, outcome)

\* eeprom.rs load_or_initialize_config
load_or_initialize_config(flash, outcome) ==
  LET r == read_config(flash)
      w == initialize_default_config(flash, outcome)
  IN IF r.ok THEN [config |-> r.config, flash |-> flash, err |-> r.err]
     ELSE [config |-> IF w.ok THEN w.config ELSE StoredConfig_default,
           flash |-> w.flash, err |-> r.err]

\* the tasks that share the cells of state.rs, the locks each of them holds
\* and where each of them stands; between two runs a task waits at its
\* Timer (motor_control_task), for a frame (can_task) or for its Ticker
\* (voltage_monitor_task)
Tasks == {"motor_control", "can", "voltage_monitor"}
NoLocks == [t \in Tasks |-> {}]
AllSuspended ==
  [t \in Tasks |-> CASE t = "can" -> "rx" [] t = "motor_control" -> "timer" [] OTHER -> "ticker"]

\* the status flags and inputs of one run of tim4_irq_handler
NoIrq == [uif |-> FALSE, ccif |-> FALSE, hall_state |-> 0, capture |-> 0]

NoObs ==
  [handler |-> "none", mode_before |-> "none", hall_valid |-> FALSE, timeout |-> FALSE,
   started |-> FALSE, switched |-> FALSE, pi_updated |-> FALSE, pi_measured |-> 0,
   status_written |-> FALSE, cal_ok |-> TRUE, cal_torque |-> 0,
   hall_index |-> NO_STATE, hall_speed_before |-> 0, hall_angle |-> 0, hall_speed |-> 0,
   irq |-> NoIrq, since_edge |-> 0, since_reset |-> 0,
   arg |-> 0, sampled |-> TRUE, samples |-> <<>>, pi_output_before |-> 0,
   held |-> NoLocks, pc |-> AllSuspended,
   flash |-> ErasedPage, RUNTIME_CONFIG |-> StoredConfig_default, CONFIG_VERSION |-> 0,
   CONFIG_CRC_VALID |-> FALSE, booted |-> TRUE, load_error |-> "none",
   hall_seen |-> 0]

\* statics of hall_tim.rs and state.rs, and the locals motor_control_task
\* sets up before its loop, but for CALIBRATION_RESULT and hall_sensor
InitCells ==
  /\ HALL_STATE = 0
  /\ OVERFLOW_COUNTER = 0
  /\ PERIOD_CYCLES = 0
  /\ TIMEOUT_FLAG = FALSE
  /\ MOTOR_ENABLE = TRUE
  /\ CALIBRATION_REQUEST = FALSE
  /\ TARGET_SPEED = INITIAL_TARGET_SPEED
  /\ SPEED_PI_GAINS = <<DEFAULT_SPEED_KP, DEFAULT_SPEED_KI>>
  /\ CONTROL_MODE = "ClosedLoopFoc"
  /\ MOTOR_STATUS = [speed_rpm |-> 0, electrical_angle |-> 0]
  /\ speed_pi = PiController_new_symmetric(DEFAULT_SPEED_KP, DEFAULT_SPEED_KI, DEFAULT_MAX_VOLTAGE)
  /\ openloop = OpenLoopSixStep_new
  /\ calibration = MotorCalibration_new
  /\ control_mode = "OpenLoop"
  /\ ramped_target_speed = 0
  /\ was_enabled = FALSE
  /\ uvw_pwm = [duty |-> <<0, 0, 0>>, enable |-> <<FALSE, FALSE, FALSE>>]

InitBase ==
  /\ InitCells
  /\ obs = NoObs

\* the program after power-up with a configuration that holds no calibration
Init ==
  /\ InitBase
  /\ CALIBRATION_RESULT = CalibrationResult_new
  /\ hall_sensor = HallSensor_new(DEFAULT_POLE_PAIRS, 0)

\* ------------------------------------------------------------------------
\* hall_tim.rs: tim4_irq_handler and reset_state
\* ------------------------------------------------------------------------

\* tim4_irq_handler with status flags uif (counter overflow) and ccif (Hall
\* edge; the GPIO reads hall_state and CCR1 holds capture)
\* a handler that raises the stall flag one overflow early
tim4_update_early_timeout(uif, ccif, hall_state, capture, timeout_overflows, max_overflow) ==
  LET overflow_count == IF uif THEN OVERFLOW_COUNTER + 1 ELSE OVERFLOW_COUNTER
      timed_out == uif /\ overflow_count >= timeout_overflows
      period == (overflow_count % ARR_COUNTS) * ARR_COUNTS + capture
  IN /\ uif \/ ccif
     /\ uif => OVERFLOW_COUNTER < max_overflow
     /\ HALL_STATE' = IF ccif THEN hall_state ELSE HALL_STATE
     /\ PERIOD_CYCLES' = IF ccif THEN period ELSE IF timed_out THEN 0 ELSE PERIOD_CYCLES
     /\ OVERFLOW_COUNTER' = IF ccif THEN 0 ELSE overflow_count
     /\ TIMEOUT_FLAG' = IF ccif THEN FALSE ELSE IF timed_out THEN TRUE ELSE TIMEOUT_FLAG

\* the handler's writes, for a stall threshold of timeout_overflows (2600 in
\* the source) and an overflow counter explored up to max_overflow; the
\* period is (overflow << 16) | capture in u32: the shift keeps the low 16
\* bits of the count, and capture is the 16-bit CCR1
tim4_update(uif, ccif, hall_state, capture, timeout_overflows, max_overflow) ==
  LET overflow_count == IF uif THEN OVERFLOW_COUNTER + 1 ELSE OVERFLOW_COUNTER
      timed_out == uif /\ overflow_count > timeout_overflows
      period == (overflow_count % ARR_COUNTS) * ARR_COUNTS + capture
  IN /\ uif \/ ccif
     /\ uif => OVERFLOW_COUNTER < max_overflow
     /\ HALL_STATE' = IF ccif THEN hall_state ELSE HALL_STATE
     /\ PERIOD_CYCLES' = IF ccif THEN period ELSE IF timed_out THEN 0 ELSE PERIOD_CYCLES
     /\ OVERFLOW_COUNTER' = IF ccif THEN 0 ELSE overflow_count
     /\ TIMEOUT_FLAG' = IF ccif THEN FALSE ELSE IF timed_out THEN TRUE ELSE TIMEOUT_FLAG

tim4_statics(uif, ccif, hall_state, capture) ==
  tim4_update(uif, ccif, hall_state, capture, TIMEOUT_OVERFLOWS, MaxOverflow)

\* the handler as a step of the program: it touches the four statics only
tim4_irq_handler(uif, ccif, hall_state, capture) ==
  /\ tim4_statics(uif, ccif, hall_state, capture)
  /\ obs' = NoObs
  /\ UNCHANGED <<shared_vars, ctl_vars>>

Tim4Irq ==
  \E uif \in BOOLEAN, ccif \in BOOLEAN, hall_state \in HallCodes, capture \in Captures :
    tim4_irq_handler(uif, ccif, hall_state, capture)

\* ------------------------------------------------------------------------
\* tasks/can.rs and tasks/voltage_monitor.rs: the writers of the flags
\* ------------------------------------------------------------------------

\* can_ids::SPEED_CMD
CanSpeedCmd(speed) ==
  /\ TARGET_SPEED' = speed
  /\ obs' = NoObs
  /\ UNCHANGED <<hall_vars, ctl_vars, MOTOR_ENABLE, CALIBRATION_REQUEST, SPEED_PI_GAINS,
                 CONTROL_MODE, CALIBRATION_RESULT, MOTOR_STATUS>>

\* can_ids::ENABLE_CMD
CanEnableCmd(enable) ==
  /\ MOTOR_ENABLE' = enable
  /\ obs' = NoObs
  /\ UNCHANGED <<hall_vars, ctl_vars, TARGET_SPEED, CALIBRATION_REQUEST, SPEED_PI_GAINS,
                 CONTROL_MODE, CALIBRATION_RESULT, MOTOR_STATUS>>

\* can_ids::START_CALIBRATION
CanStartCalibration ==
  /\ CALIBRATION_REQUEST' = TRUE
  /\ obs' = NoObs
  /\ UNCHANGED <<hall_vars, ctl_vars, MOTOR_ENABLE, TARGET_SPEED, SPEED_PI_GAINS,
                 CONTROL_MODE, CALIBRATION_RESULT, MOTOR_STATUS>>

\* can_ids::EMERGENCY_STOP
CanEmergencyStop ==
  /\ MOTOR_ENABLE' = FALSE
  /\ TARGET_SPEED' = 0
  /\ obs' = NoObs
  /\ UNCHANGED <<hall_vars, ctl_vars, CALIBRATION_REQUEST, SPEED_PI_GAINS,
                 CONTROL_MODE, CALIBRATION_RESULT, MOTOR_STATUS>>

\* voltage_monitor_task: an iteration whose reading is out of range
VoltageFault ==
  /\ MOTOR_ENABLE
  /\ MOTOR_ENABLE' = FALSE
  /\ TARGET_SPEED' = 0
  /\ obs' = NoObs
  /\ UNCHANGED <<hall_vars, ctl_vars, CALIBRATION_REQUEST, SPEED_PI_GAINS,
                 CONTROL_MODE, CALIBRATION_RESULT, MOTOR_STATUS>>

\* ------------------------------------------------------------------------
\* tasks/motor_control.rs: one iteration of motor_control_task's loop
\* ------------------------------------------------------------------------

AllEnabled == <<TRUE, TRUE, TRUE>>
AllDisabled == <<FALSE, FALSE, FALSE>>
ZeroDuty == <<0, 0, 0>>

\* hall_tim::reset_state (HALL_STATE is not reset)
reset_state ==
  /\ OVERFLOW_COUNTER' = 0
  /\ PERIOD_CYCLES' = 0
  /\ TIMEOUT_FLAG' = FALSE
  /\ UNCHANGED HALL_STATE

\* a disabled iteration that also clears a pending calibration request
TickDisabled_drops_request ==
  /\ ~MOTOR_ENABLE
  /\ was_enabled' = FALSE
  /\ uvw_pwm' = [duty |-> ZeroDuty, enable |-> AllDisabled]
  /\ speed_pi' = PiController_reset(speed_pi)
  /\ hall_sensor' = HallSensor_reset(hall_sensor)
  /\ openloop' = OpenLoopSixStep_reset(openloop)
  /\ reset_state
  /\ ramped_target_speed' = 0
  /\ control_mode' = "OpenLoop"
  /\ CALIBRATION_REQUEST' = FALSE
  /\ obs' = [NoObs EXCEPT !.handler = "Disabled", !.mode_before = control_mode]
  /\ UNCHANGED <<MOTOR_ENABLE, TARGET_SPEED, SPEED_PI_GAINS, CONTROL_MODE,
                 CALIBRATION_RESULT, MOTOR_STATUS, calibration>>

\* lines 73-102: the iteration when MOTOR_ENABLE is false
TickDisabled ==
  /\ ~MOTOR_ENABLE
  /\ was_enabled' = FALSE
  /\ uvw_pwm' = [duty |-> ZeroDuty, enable |-> AllDisabled]
  /\ speed_pi' = PiController_reset(speed_pi)
  /\ hall_sensor' = HallSensor_reset(hall_sensor)
  /\ openloop' = OpenLoopSixStep_reset(openloop)
  /\ reset_state
  /\ ramped_target_speed' = 0
  /\ control_mode' = "OpenLoop"
  /\ obs' = [NoObs EXCEPT !.handler = "Disabled", !.mode_before = control_mode]
  /\ UNCHANGED <<shared_vars, calibration>>

\* a ramp without the acceleration limit
RampTarget_unlimited(ramped, target_speed) == target_speed

\* lines 234-248: the target-speed ramp
RampTarget(ramped, target_speed) ==
  LET speed_error == target_speed - ramped
  IN IF Abs(speed_error) > MAX_DELTA_SPEED
     THEN IF speed_error > 0 THEN ramped + MAX_DELTA_SPEED ELSE ramped - MAX_DELTA_SPEED
     ELSE target_speed

\* lines 260-269: the minimum-voltage boost
MinVoltage(vq_cmd, ramped, speed_rpm) ==
  IF Abs(ramped - speed_rpm) > MIN_VOLTAGE_ERROR_THRESHOLD /\ Abs(vq_cmd) > 0
  THEN IF vq_cmd > 0 THEN Max(vq_cmd, MIN_VOLTAGE) ELSE Min(vq_cmd, -MIN_VOLTAGE)
  ELSE vq_cmd

\* lines 271-279 and 348-353: dq voltage to the three duties
Duties(vd_cmd, vq_cmd, electrical_angle) ==
  LET ab == inverse_park(vd_cmd, vq_cmd, electrical_angle)
  IN calculate_svpwm(ab.v_alpha, ab.v_beta, DEFAULT_V_DC_BUS, DEFAULT_MAX_DUTY)

\* lines 154-185: the OpenLoop arm
ArmOpenLoop(ob, hs) ==
  LET o == OpenLoopSixStep_update(openloop)
      step_state == get_step_state(o.current_step, o.duty_ratio)
  IN /\ openloop' = o
     /\ uvw_pwm' = [duty |-> step_state.duty, enable |-> step_state.enable]
     /\ MOTOR_STATUS' = [speed_rpm |-> get_current_rpm(o), electrical_angle |-> 0]
     /\ obs' = [ob EXCEPT !.handler = "OpenLoop", !.status_written = TRUE]
     /\ control_mode' = "OpenLoop"
     /\ hall_sensor' = hs
     /\ UNCHANGED <<speed_pi, ramped_target_speed, calibration, CONTROL_MODE,
                    CALIBRATION_RESULT>>

\* a fault arm that falls back to OpenLoop
ArmFocFault_to_openloop(ob, pwm, hs) ==
  /\ uvw_pwm' = [pwm EXCEPT !.duty = ZeroDuty]
  /\ speed_pi' = PiController_reset(speed_pi)
  /\ ramped_target_speed' = 0
  /\ obs' = [ob EXCEPT !.handler = "FocFault"]
  /\ control_mode' = "OpenLoop"
  /\ hall_sensor' = hs
  /\ UNCHANGED <<openloop, calibration, MOTOR_STATUS, CONTROL_MODE, CALIBRATION_RESULT>>

\* lines 207-217: the ClosedLoopFoc arm with an invalid Hall code
ArmFocFault(ob, pwm, hs) ==
  /\ uvw_pwm' = [pwm EXCEPT !.duty = ZeroDuty]
  /\ speed_pi' = PiController_reset(speed_pi)
  /\ ramped_target_speed' = 0
  /\ obs' = [ob EXCEPT !.handler = "FocFault"]
  /\ control_mode' = "ClosedLoopFoc"
  /\ hall_sensor' = hs
  /\ UNCHANGED <<openloop, calibration, MOTOR_STATUS, CONTROL_MODE, CALIBRATION_RESULT>>

\* lines 222-310: the ClosedLoopFoc arm with a valid Hall code
ArmFoc(ob, hs, ramped, hall_electrical_angle, speed_rpm) ==
  LET pi0 == IF SPEED_PI_GAINS[1] # speed_pi.kp \/ SPEED_PI_GAINS[2] # speed_pi.ki
             THEN set_gains(speed_pi, SPEED_PI_GAINS[1], SPEED_PI_GAINS[2])
             ELSE speed_pi
      ramped1 == RampTarget(ramped, TARGET_SPEED)
      pi1 == PiController_update(pi0, ramped1, speed_rpm)
      stopped == Abs(ramped1) < STOP_SPEED /\ Abs(speed_rpm) < STOP_SPEED
      pi2 == IF stopped THEN PiController_reset(pi1) ELSE pi1
      vq0 == IF stopped THEN 0 ELSE pi1.last_output
      vq_cmd == MinVoltage(vq0, ramped1, speed_rpm)
      lim == limit_voltage(0, vq_cmd, DEFAULT_MAX_VOLTAGE)
  IN /\ speed_pi' = pi2
     /\ ramped_target_speed' = ramped1
     /\ uvw_pwm' = [duty |-> Duties(lim.vd, lim.vq, hall_electrical_angle), enable |-> AllEnabled]
     /\ MOTOR_STATUS' = [speed_rpm |-> speed_rpm, electrical_angle |-> hall_electrical_angle]
     /\ obs' = [ob EXCEPT !.handler = "ClosedLoopFoc", !.pi_updated = TRUE,
                          !.pi_measured = speed_rpm, !.status_written = TRUE]
     /\ control_mode' = "ClosedLoopFoc"
     /\ hall_sensor' = hs
     /\ UNCHANGED <<openloop, calibration, CONTROL_MODE, CALIBRATION_RESULT>>

\* a Calibration arm that does not publish the result of a success
ArmCalibration_keeps_result(ob, pwm, hs, cal, ramped, max_req) ==
  LET r == MotorCalibration_update(cal, hs.mechanical_angle, HALL_STATE)
      v_cmd == TDiv(r.torque * DEFAULT_MAX_VOLTAGE, 100)
      done == r.ok /\ is_completed(r.cal)
      success == done /\ r.cal.result.success
      failed == ~r.ok \/ (done /\ ~r.cal.result.success)
      mode == IF success THEN "ClosedLoopFoc" ELSE IF failed THEN "OpenLoop" ELSE "Calibration"
  IN /\ Abs(r.cal.shaft_position_req.rotations) <= max_req
     /\ Abs(r.cal.shaft_position_act.rotations) <= MaxRot
     /\ calibration' = r.cal
     /\ uvw_pwm' = IF r.ok
                    THEN [duty |-> IF failed THEN ZeroDuty
                                   ELSE Duties(0, v_cmd, r.electrical_angle),
                          enable |-> AllEnabled]
                    ELSE [pwm EXCEPT !.duty = ZeroDuty]
     /\ hall_sensor' = IF success THEN set_electrical_offset(hs, r.cal.result.electrical_offset)
                       ELSE hs
     /\ control_mode' = mode
     /\ CONTROL_MODE' = IF success \/ failed THEN mode
                        ELSE IF ob.started THEN "Calibration" ELSE CONTROL_MODE
     /\ ramped_target_speed' = ramped
     /\ obs' = [ob EXCEPT !.handler = "Calibration", !.cal_ok = r.ok,
                          !.cal_torque = r.torque]
     /\ UNCHANGED <<speed_pi, openloop, MOTOR_STATUS, CALIBRATION_RESULT>>

\* lines 333-421: the Calibration arm. CONTROL_MODE is written when the
\* request is consumed (lines 121-122) and when the arm leaves Calibration
ArmCalibration(ob, pwm, hs, cal, ramped, max_req) ==
  LET r == MotorCalibration_update(cal, hs.mechanical_angle, HALL_STATE)
      v_cmd == TDiv(r.torque * DEFAULT_MAX_VOLTAGE, 100)
      done == r.ok /\ is_completed(r.cal)
      success == done /\ r.cal.result.success
      failed == ~r.ok \/ (done /\ ~r.cal.result.success)
      mode == IF success THEN "ClosedLoopFoc" ELSE IF failed THEN "OpenLoop" ELSE "Calibration"
  IN /\ Abs(r.cal.shaft_position_req.rotations) <= max_req
     /\ Abs(r.cal.shaft_position_act.rotations) <= MaxRot
     /\ calibration' = r.cal
     /\ uvw_pwm' = IF r.ok
                    THEN [duty |-> IF failed THEN ZeroDuty
                                   ELSE Duties(0, v_cmd, r.electrical_angle),
                          enable |-> AllEnabled]
                    ELSE [pwm EXCEPT !.duty = ZeroDuty]
     /\ CALIBRATION_RESULT' = IF success THEN r.cal.result ELSE CALIBRATION_RESULT
     /\ hall_sensor' = IF success THEN set_electrical_offset(hs, r.cal.result.electrical_offset)
                       ELSE hs
     /\ control_mode' = mode
     /\ CONTROL_MODE' = IF success \/ failed THEN mode
                        ELSE IF ob.started THEN "Calibration" ELSE CONTROL_MODE
     /\ ramped_target_speed' = ramped
     /\ obs' = [ob EXCEPT !.handler = "Calibration", !.cal_ok = r.ok,
                          !.cal_torque = r.torque]
     /\ UNCHANGED <<speed_pi, openloop, MOTOR_STATUS>>

\* lines 104-421: the iteration when MOTOR_ENABLE is true. hall_state is the
\* code get_hall_state answers at line 131; seen_state, seen_period and
\* seen_timeout are what hall_sensor.update reads at line 135 (hall_sensor.rs
\* 101 and what follows); max_req bounds the rotations of the calibrator's
\* requested position
TickEnabledAt(max_req, hall_state, seen_state, seen_period, seen_timeout) ==
  LET pwm0 == IF was_enabled THEN uvw_pwm ELSE [uvw_pwm EXCEPT !.enable = AllEnabled]
      requested == CALIBRATION_REQUEST
      mode0 == IF requested THEN "Calibration" ELSE control_mode
      cal0 == IF requested THEN MotorCalibration_start(calibration) ELSE calibration
      is_valid_hall == hall_state \in 1..6
      hs1 == HallSensor_update(hall_sensor, seen_state, seen_period, seen_timeout)
      hall_electrical_angle == get_electrical_angle(hs1)
      speed_rpm == hs1.speed_rpm
      switch == mode0 = "OpenLoop" /\ is_valid_hall /\ is_target_reached(openloop)
      mode1 == IF switch THEN "ClosedLoopFoc" ELSE mode0
      current_rpm == get_current_rpm(openloop)
      hs2 == IF switch THEN reset_speed_filter(hs1, current_rpm) ELSE hs1
      ramped == IF switch THEN current_rpm ELSE ramped_target_speed
      ob == [NoObs EXCEPT !.mode_before = control_mode, !.hall_valid = is_valid_hall,
                          !.timeout = seen_timeout, !.started = requested,
                          !.switched = switch, !.hall_seen = seen_state]
  IN /\ MOTOR_ENABLE
     /\ hs1.time_since_edge <= MaxSinceEdge
     /\ was_enabled' = TRUE
     /\ CALIBRATION_REQUEST' = FALSE
     /\ CASE mode1 = "OpenLoop" -> ArmOpenLoop(ob, hs2)
          [] mode1 = "ClosedLoopFoc" /\ ~is_valid_hall -> ArmFocFault(ob, pwm0, hs2)
          [] mode1 = "ClosedLoopFoc" /\ is_valid_hall ->
               ArmFoc(ob, hs2, ramped, hall_electrical_angle, speed_rpm)
          [] mode1 = "Calibration" -> ArmCalibration(ob, pwm0, hs2, cal0, ramped, max_req)
     /\ UNCHANGED <<MOTOR_ENABLE, TARGET_SPEED, SPEED_PI_GAINS>>

\* the iteration with no TIM4 interrupt inside it
TickEnabled(max_req) ==
  /\ TickEnabledAt(max_req, HALL_STATE, HALL_STATE, PERIOD_CYCLES, TIMEOUT_FLAG)
  /\ UNCHANGED hall_vars

Tick == TickDisabled \/ TickEnabled(MaxRot)

Next ==
  \/ Tim4Irq
  \/ Tick
  \/ \E speed \in SpeedCommands \ {TARGET_SPEED} : CanSpeedCmd(speed)
  \/ \E enable \in BOOLEAN \ {MOTOR_ENABLE} : CanEnableCmd(enable)
  \/ CanStartCalibration
  \/ CanEmergencyStop
  \/ VoltageFault

Spec == Init /\ [][Next]_vars

\* ------------------------------------------------------------------------
\* The calibrator alone: MotorCalibration driven the way the Calibration arm
\* drives it (hall_sensor.update, then calibration.update with the
\* mechanical angle), without the coordinator around it
\* ------------------------------------------------------------------------

\* a Hall edge (capture 0, no overflow)
CalHallEdge ==
  \E hall_state \in CalCodes \ {HALL_STATE} : tim4_irq_handler(FALSE, TRUE, hall_state, 0)

\* MotorCalibration::start
CalStart ==
  /\ calibration' = MotorCalibration_start(calibration)
  /\ obs' = [NoObs EXCEPT !.handler = "start", !.mode_before = calibration.state]
  /\ UNCHANGED <<hall_vars, shared_vars, hall_sensor, speed_pi, openloop, control_mode,
                 ramped_target_speed, was_enabled, uvw_pwm>>

\* motor_control.rs lines 135 and 336-339: hall_sensor.update, then
\* calibration.update(hall_sensor.get_mechanical_angle())
CalUpdate ==
  LET hs == HallSensor_update(hall_sensor, HALL_STATE, PERIOD_CYCLES, TIMEOUT_FLAG)
      r == MotorCalibration_update(calibration, hs.mechanical_angle, HALL_STATE)
  IN /\ Abs(r.cal.shaft_position_req.rotations) <= MaxCalRot
     /\ Abs(r.cal.shaft_position_act.rotations) <= MaxRot
     /\ hs.time_since_edge <= MaxSinceEdge
     /\ hall_sensor' = hs
     /\ calibration' = r.cal
     /\ obs' = [NoObs EXCEPT !.handler = "update", !.mode_before = calibration.state,
                             !.cal_ok = r.ok, !.cal_torque = r.torque]
     /\ UNCHANGED <<hall_vars, shared_vars, speed_pi, openloop, control_mode,
                    ramped_target_speed, was_enabled, uvw_pwm>>

NextCal == CalHallEdge \/ CalStart \/ CalUpdate

SpecCal == Init /\ [][NextCal]_vars

\* ------------------------------------------------------------------------
\* One run of the drive: power-up with MOTOR_ENABLE set, a rotor that turns
\* at most one sector per control tick, one calibration command, and an
\* emergency stop that ends the run
\* ------------------------------------------------------------------------

RunHallEdge ==
  /\ obs.handler # "none" \/ HALL_STATE = 0
  /\ \E hall_state \in RunCodes(HALL_STATE) : tim4_irq_handler(FALSE, TRUE, hall_state, 0)

RunRequest ==
  /\ ~CALIBRATION_REQUEST
  /\ calibration = MotorCalibration_new
  /\ CanStartCalibration

RunTick == TickDisabled \/ TickEnabled(MaxCalRot)

NextRun == RunHallEdge \/ RunRequest \/ RunTick \/ CanEmergencyStop

SpecRun == Init /\ [][NextRun]_vars

\* ------------------------------------------------------------------------
\* A drive whose rotor rests: after power-up the Hall inputs settle on one
\* code (a sector, or the fault code 7; 0 while no edge was captured), TIM4
\* overflows because no further edge comes, and calibrations are commanded
\* one after the other
\* ------------------------------------------------------------------------

\* main.rs lines 107-112: CALIBRATION_RESULT takes the calibration fields of
\* the loaded configuration: never calibrated, or a stored successful one
LoadedResults ==
  {CalibrationResult_new,
   [electrical_offset |-> 0, direction_inversed |-> FALSE, success |-> TRUE]}

InitLoaded ==
  /\ InitBase
  /\ CALIBRATION_RESULT \in LoadedResults
  /\ hall_sensor = HallSensor_new(DEFAULT_POLE_PAIRS, 0)

\* the edge on which the Hall inputs settle, outside a calibration session
StillHallEdge ==
  /\ HALL_STATE = 0
  /\ control_mode # "Calibration"
  /\ \E hall_state \in 1..7 : tim4_irq_handler(FALSE, TRUE, hall_state, 0)

\* a TIM4 overflow without a Hall edge
StillOverflow == tim4_irq_handler(TRUE, FALSE, HALL_STATE, 0)

\* START_CALIBRATION while no session runs
StillRequest ==
  /\ ~CALIBRATION_REQUEST
  /\ control_mode # "Calibration"
  /\ CanStartCalibration

StillTick == TickEnabled(MaxCalRot)

NextStill == StillHallEdge \/ StillOverflow \/ StillRequest \/ StillTick

SpecStill == InitLoaded /\ [][NextStill]_vars

\* ------------------------------------------------------------------------
\* The calibrator of a resting rotor: sessions are started one after the
\* other, the Calibration arm's two updates run every control period and
\* TIM4 overflows when its period has passed without an edge
\* ------------------------------------------------------------------------

\* the edge on which the Hall inputs settle, outside a session
CalStillEdge ==
  /\ HALL_STATE = 0
  /\ calibration.state \in {"Init", "Completed"}
  /\ \E hall_state \in 1..7 : tim4_irq_handler(FALSE, TRUE, hall_state, 0)

\* MotorCalibration::start while no session runs
CalStillStart ==
  /\ calibration.state \in {"Init", "Completed"}
  /\ CalStart

NextCalStill == CalStillEdge \/ StillOverflow \/ CalStillStart \/ CalUpdate

SpecCalStill ==
  Init /\ [][NextCalStill]_vars /\ WF_vars(CalUpdate) /\ WF_vars(StillOverflow)

\* ------------------------------------------------------------------------
\* The Hall position estimator alone: HallSensor driven by the statics of
\* hall_tim.rs, with every raw code, with and without a measured period,
\* for a motor of two pole pairs (so that hall_idx_base has two values)
\* ------------------------------------------------------------------------

HallPolePairs == 2
\* CCR1 at an edge: 0, or a count that gives a speed above the 1 RPM threshold
HallCaptures == {0, 16384}
\* electrical offsets a calibration stores
HallOffsets == {0, 30}

InitHall ==
  /\ InitBase
  /\ CALIBRATION_RESULT = CalibrationResult_new
  /\ hall_sensor = HallSensor_new(HallPolePairs, 0)

\* tim4_irq_handler between two updates; what the last update saw stays
\* on record
HallIrq ==
  /\ \E uif \in BOOLEAN, ccif \in BOOLEAN, hall_state \in 0..7, capture \in HallCaptures :
       tim4_statics(uif, ccif, hall_state, capture)
  /\ obs' = [obs EXCEPT !.handler = "none"]
  /\ UNCHANGED <<shared_vars, ctl_vars>>

\* HallSensor::update called on its own; the tuple it returns is
\* (electrical angle, speed) of the updated estimator
HallUpdate ==
  LET hs == HallSensor_update(hall_sensor, HALL_STATE, PERIOD_CYCLES, TIMEOUT_FLAG)
      valid == is_valid_state(HALL_STATE)
      timed_out == TIMEOUT_FLAG \/ (valid /\ PERIOD_CYCLES = 0)
  IN /\ hs.time_since_edge <= MaxHallSinceEdge
     /\ hall_sensor' = hs
     /\ obs' = [NoObs EXCEPT !.handler = "HallUpdate", !.hall_valid = valid,
                             !.timeout = timed_out,
                             !.hall_index = IF valid /\ ~timed_out
                                            THEN HALL_STATE_TABLE(HALL_STATE)
                                            ELSE NO_STATE,
                             !.hall_speed_before = hall_sensor.speed_rpm,
                             !.hall_angle = get_electrical_angle(hs),
                             !.hall_speed = hs.speed_rpm]
     /\ UNCHANGED <<hall_vars, shared_vars, speed_pi, openloop, calibration, control_mode,
                    ramped_target_speed, was_enabled, uvw_pwm>>

\* HallSensor::reset
HallReset ==
  /\ hall_sensor' = HallSensor_reset(hall_sensor)
  /\ obs' = [NoObs EXCEPT !.handler = "HallReset"]
  /\ UNCHANGED <<hall_vars, shared_vars, speed_pi, openloop, calibration, control_mode,
                 ramped_target_speed, was_enabled, uvw_pwm>>

\* HallSensor::set_electrical_offset
HallSetOffset ==
  /\ \E offset \in HallOffsets \ {hall_sensor.electrical_offset} :
       hall_sensor' = set_electrical_offset(hall_sensor, offset)
  /\ obs' = [obs EXCEPT !.handler = "none"]
  /\ UNCHANGED <<hall_vars, shared_vars, speed_pi, openloop, calibration, control_mode,
                 ramped_target_speed, was_enabled, uvw_pwm>>

NextHallStep == HallIrq \/ HallUpdate \/ HallReset \/ HallSetOffset

SpecHall == InitHall /\ [][NextHallStep]_vars

\* The estimator at speed: captures short enough for the interpolated angle
\* to pass a full turn between two updates
HallFastCaptures == {0, 64}

HallFastIrq ==
  /\ \E uif \in BOOLEAN, ccif \in BOOLEAN, hall_state \in 0..7, capture \in HallFastCaptures :
       tim4_statics(uif, ccif, hall_state, capture)
  /\ obs' = [obs EXCEPT !.handler = "none"]
  /\ UNCHANGED <<shared_vars, ctl_vars>>

NextHallFast == HallFastIrq \/ HallUpdate \/ HallReset

SpecHallFast == InitHall /\ [][NextHallFast]_vars

\* ------------------------------------------------------------------------
\* The TIM4 handler alone: overflows and Hall edges in any order, and
\* reset_state as the disabled control tick calls it, with a stall
\* threshold of two overflows
\* ------------------------------------------------------------------------

TimTimeoutOverflows == 2           \* scaled: 2600 in the source

TimIrq ==
  \E uif \in BOOLEAN, ccif \in BOOLEAN, hall_state \in 0..7, capture \in HallCaptures :
    /\ tim4_update(uif, ccif, hall_state, capture, TimTimeoutOverflows, MaxTimOverflow)
    /\ obs' = [NoObs EXCEPT !.handler = "tim4",
                            !.irq = [uif |-> uif, ccif |-> ccif,
                                     hall_state |-> hall_state, capture |-> capture],
                            !.since_edge = IF ccif THEN 0
                                          ELSE Min(obs.since_edge + 1, MaxTimOverflow),
                            !.since_reset = IF ccif THEN 0 ELSE obs.since_reset + 1]
    /\ UNCHANGED <<shared_vars, ctl_vars>>

TimReset ==
  /\ reset_state
  /\ obs' = [NoObs EXCEPT !.handler = "reset_state", !.since_edge = obs.since_edge]
  /\ UNCHANGED <<shared_vars, ctl_vars>>

NextTim == TimIrq \/ TimReset

SpecTim == Init /\ [][NextTim]_vars

\* ------------------------------------------------------------------------
\* The TIM4 handler after long gaps: a run of overflow interrupts with no
\* Hall edge, of a few lengths below and above 2^16, and the interrupt of
\* the edge that ends it, with the stall threshold of the source
\* ------------------------------------------------------------------------

STALL_OVERFLOWS == 2600
WideGaps == {1, 2, 3, 2600, 2601, 65536, 65537, 65538, 131072, 131073}
WideCaptures == {0, 1000, 65535}
MaxWideOverflow == 131074

\* gap overflow interrupts (the UPDATE branch alone) taken one after another
\* from a zeroed counter
WideGap ==
  \E gap \in WideGaps :
    /\ OVERFLOW_COUNTER = 0
    /\ gap <= MaxWideOverflow
    /\ OVERFLOW_COUNTER' = gap
    /\ TIMEOUT_FLAG' = IF gap > STALL_OVERFLOWS THEN TRUE ELSE TIMEOUT_FLAG
    /\ PERIOD_CYCLES' = IF gap > STALL_OVERFLOWS THEN 0 ELSE PERIOD_CYCLES
    /\ obs' = [NoObs EXCEPT !.handler = "gap", !.since_edge = gap]
    /\ UNCHANGED <<HALL_STATE, shared_vars, ctl_vars>>

\* the interrupt of the Hall edge that ends the gap, alone or together with
\* one more overflow
WideEdge ==
  \E uif \in BOOLEAN, hall_state \in {1, 5}, capture \in WideCaptures :
    /\ obs.handler = "gap"
    /\ tim4_update(uif, TRUE, hall_state, capture, STALL_OVERFLOWS, MaxWideOverflow)
    /\ obs' = [NoObs EXCEPT !.handler = "tim4",
                            !.irq = [uif |-> uif, ccif |-> TRUE,
                                     hall_state |-> hall_state, capture |-> capture],
                            !.since_edge = obs.since_edge + IF uif THEN 1 ELSE 0]
    /\ UNCHANGED <<shared_vars, ctl_vars>>

NextTimWide == WideGap \/ WideEdge

SpecTimWide == Init /\ [][NextTimWide]_vars

\* ------------------------------------------------------------------------
\* A ShaftPosition alone: the calibrator's measured position, created by
\* new() and driven by any sequence of its methods
\* ------------------------------------------------------------------------

\* sensor angles in degrees; 57, 115, 344 and 29 are 1.0, 2.0, 6.0 and
\* 0.5 rad of the unit tests
ShaftSamples == {-30, 0, 29, 57, 115, 180, 344, 400}
ShaftDeltas == {-400, -181, -1, 1, 181, 400}

ShaftRest == <<hall_vars, shared_vars, hall_sensor, speed_pi, openloop, control_mode,
               ramped_target_speed, was_enabled, uvw_pwm>>

\* ShaftPosition::new
ShaftNew ==
  /\ calibration' = [calibration EXCEPT !.shaft_position_act = ShaftPosition_new]
  /\ obs' = [NoObs EXCEPT !.handler = "new"]
  /\ UNCHANGED ShaftRest

ShaftUpdate ==
  \E sensor_angle \in ShaftSamples :
    LET p == update_shaft_angle(calibration.shaft_position_act, sensor_angle)
        more == obs.sampled /\ Len(obs.samples) < MaxSamples
    IN /\ Abs(p.rotations) <= MaxShaftRot
       /\ calibration' = [calibration EXCEPT !.shaft_position_act = p]
       /\ obs' = [NoObs EXCEPT !.handler = "update_shaft_angle", !.arg = sensor_angle,
                               !.sampled = more,
                               !.samples = IF more THEN Append(obs.samples, sensor_angle)
                                           ELSE <<>>]
       /\ UNCHANGED ShaftRest

ShaftIncrement ==
  \E delta_angle \in ShaftDeltas :
    LET p == increment(calibration.shaft_position_act, delta_angle)
    IN /\ Abs(p.rotations) <= MaxShaftRot
       /\ calibration' = [calibration EXCEPT !.shaft_position_act = p]
       /\ obs' = [NoObs EXCEPT !.handler = "increment", !.arg = delta_angle,
                               !.sampled = FALSE]
       /\ UNCHANGED ShaftRest

ShaftSetInversed ==
  /\ calibration' = [calibration EXCEPT
                       !.shaft_position_act = set_inversed(@, ~@.inversed)]
  /\ obs' = [NoObs EXCEPT !.handler = "set_inversed", !.sampled = FALSE]
  /\ UNCHANGED ShaftRest

ShaftReset ==
  /\ calibration' = [calibration EXCEPT
                       !.shaft_position_act = ShaftPosition_reset(@)]
  /\ obs' = [NoObs EXCEPT !.handler = "reset", !.sampled = FALSE]
  /\ UNCHANGED ShaftRest

NextShaft == ShaftNew \/ ShaftUpdate \/ ShaftIncrement \/ ShaftSetInversed \/ ShaftReset

SpecShaft == Init /\ [][NextShaft]_vars

\* ------------------------------------------------------------------------
\* The speed PiController alone, as motor_control_task creates it
\* (new_symmetric, anti-windup enabled) and with the calls the task makes:
\* update, reset and set_gains
\* ------------------------------------------------------------------------

PiSetpoints == 0..2
PiMeasured == 0..3
\* (kp, ki): the defaults, integral only (as in test_integral_accumulation),
\* proportional only
PiGains == {<<DEFAULT_SPEED_KP, DEFAULT_SPEED_KI>>, <<0, 1>>, <<1, 0>>}

PiRest == <<hall_vars, shared_vars, hall_sensor, openloop, calibration, control_mode,
            ramped_target_speed, was_enabled, uvw_pwm>>

PiUpdate ==
  \E setpoint \in PiSetpoints, measured \in PiMeasured :
    LET pi == PiController_update(speed_pi, setpoint, measured)
    IN /\ Abs(pi.integral) <= MaxIntegral
       /\ speed_pi' = pi
       /\ obs' = [NoObs EXCEPT !.handler = "pi_update", !.pi_updated = TRUE,
                               !.arg = setpoint, !.pi_measured = measured,
                               !.pi_output_before = speed_pi.last_output]
       /\ UNCHANGED PiRest

PiReset ==
  /\ speed_pi' = PiController_reset(speed_pi)
  /\ obs' = [NoObs EXCEPT !.handler = "pi_reset"]
  /\ UNCHANGED PiRest

PiSetGains ==
  /\ \E g \in PiGains \ {<<speed_pi.kp, speed_pi.ki>>} :
       speed_pi' = set_gains(speed_pi, g[1], g[2])
  /\ obs' = [NoObs EXCEPT !.handler = "set_gains"]
  /\ UNCHANGED PiRest

NextPi == PiUpdate \/ PiReset \/ PiSetGains

SpecPi == Init /\ [][NextPi]_vars

\* ------------------------------------------------------------------------
\* calculate_svpwm alone: the duties it returns are written to the PWM, as
\* the control tick does, for voltage vectors inside and far outside the
\* bus voltage, bus voltages that are negative, zero and positive, and even
\* and odd duty ranges
\* ------------------------------------------------------------------------

SvpwmVolts == {-48000, -12000, -5000, 0, 1, 7000, 12000, 48000}   \* millivolts
SvpwmBus == {-1, 0, 12, 24}                                        \* volts
SvpwmMaxDuty == {0, 100, 101}

SvpwmCall ==
  \E v_alpha \in SvpwmVolts, v_beta \in SvpwmVolts, v_dc \in SvpwmBus,
     max_duty \in SvpwmMaxDuty :
    /\ uvw_pwm' = [uvw_pwm EXCEPT !.duty = calculate_svpwm(v_alpha, v_beta, v_dc, max_duty)]
    /\ obs' = [NoObs EXCEPT !.handler = "calculate_svpwm",
                            !.arg = <<v_alpha, v_beta, v_dc, max_duty>>]
    /\ UNCHANGED <<hall_vars, shared_vars, hall_sensor, speed_pi, openloop, calibration,
                   control_mode, ramped_target_speed, was_enabled>>

NextSvpwm == SvpwmCall

SpecSvpwm == Init /\ [][NextSvpwm]_vars

\* ------------------------------------------------------------------------
\* calculate_offset alone: six recorded sector angles that each differ from
\* the expected angle of their sector by a common angle theta plus or minus
\* a spread delta
\* ------------------------------------------------------------------------

OffsetCommon == {0, 45, 175, 180, 185, 270}
OffsetSpread == 10

\* the calibrator's recorded angles are normalized mechanical angles
OffsetCall ==
  \E theta \in OffsetCommon, e \in [Sectors -> {-OffsetSpread, OffsetSpread}] :
    LET angles == [sector \in Sectors |-> clamp(EXPECTED_ANGLES(sector) + theta + e[sector])]
    IN /\ calibration.sector_angles = NoSectors
       /\ calibration' = [calibration EXCEPT
                            !.sector_angles = angles,
                            !.result.electrical_offset = calculate_offset(angles)]
       /\ obs' = [NoObs EXCEPT !.handler = "calculate_offset",
                               !.arg = <<theta, OffsetSpread>>]
       /\ UNCHANGED <<hall_vars, shared_vars, hall_sensor, speed_pi, openloop,
                      control_mode, ramped_target_speed, was_enabled, uvw_pwm>>

\* MotorCalibration::start clears the recorded angles for the next session
OffsetStart ==
  /\ calibration.sector_angles # NoSectors
  /\ calibration' = MotorCalibration_start(calibration)
  /\ obs' = [NoObs EXCEPT !.handler = "start"]
  /\ UNCHANGED <<hall_vars, shared_vars, hall_sensor, speed_pi, openloop,
                 control_mode, ramped_target_speed, was_enabled, uvw_pwm>>

NextOffset == OffsetCall \/ OffsetStart

SpecOffset == Init /\ [][NextOffset]_vars

\* ------------------------------------------------------------------------
\* The locks of state.rs: motor_control_task and can_task followed from one
\* lock operation to the next. The executor is cooperative: a task runs
\* until it waits (the Timer of the control loop, the next CAN frame), so a
\* task starts a run only while the other one waits. Of the data only what
\* the calibration-request section reads and writes is followed.
\* ------------------------------------------------------------------------

\* lock sites of motor_control_task after line 126, in program order, one
\* or two of each arm of the match; an iteration passes some of them, never
\* one twice. The sites of lines 224, 307, 324 and 325 have the shape of
\* the one of line 232, those of lines 403 and 417 that of line 390.
McSites ==
  << [at |-> "s182", lock |-> "MOTOR_STATUS"], [at |-> "s232", lock |-> "TARGET_SPEED"],
     [at |-> "s380", lock |-> "CALIBRATION_RESULT"], [at |-> "s390", lock |-> "CONTROL_MODE"] >>
McBodyLocks == {McSites[i].lock : i \in DOMAIN McSites}
\* the sites an iteration can go to after site i (0: after line 126), or
\* "done" when it takes no further lock
McLater(i) == {McSites[j].at : j \in {k \in DOMAIN McSites : k > i}} \cup {"done"}
\* cells a CAN command or a status frame locks, among them every cell that
\* another task writes; the configuration cells are locked by can_task only
CanLocks == {"TARGET_SPEED", "MOTOR_ENABLE", "CALIBRATION_REQUEST", "MOTOR_STATUS",
             "CALIBRATION_RESULT", "VOLTAGE_STATE"}

LockFree(l) == \A t \in Tasks : l \notin obs.held[t]

\* every other task waits for its timer or its frame
OthersWait(t) == \A u \in Tasks \ {t} : obs.pc[u] = AllSuspended[u]

LockStep(t, from, to, held) ==
  /\ obs.pc[t] = from
  /\ obs' = [obs EXCEPT !.handler = t, !.pc[t] = to, !.held[t] = held]

LockRest == <<hall_vars, SPEED_PI_GAINS, CALIBRATION_RESULT, MOTOR_STATUS, hall_sensor,
              speed_pi, openloop, ramped_target_speed, was_enabled, uvw_pwm>>
LockData == <<MOTOR_ENABLE, TARGET_SPEED, CALIBRATION_REQUEST, CONTROL_MODE, control_mode,
              calibration>>

\* line 74: MOTOR_ENABLE.lock().await at the top of the loop
McLockEnable ==
  /\ LockFree("MOTOR_ENABLE")
  /\ LockStep("motor_control", "timer", "enable",
              obs.held["motor_control"] \cup {"MOTOR_ENABLE"})
  /\ UNCHANGED <<LockRest, LockData>>

\* line 74, the end of the statement drops the guard; lines 75-102: the
\* disabled iteration goes back to the Timer
McUnlockEnable ==
  /\ LockStep("motor_control", "enable", IF MOTOR_ENABLE THEN "check" ELSE "timer",
              obs.held["motor_control"] \ {"MOTOR_ENABLE"})
  /\ UNCHANGED <<LockRest, LockData>>

\* lines 115-121: CALIBRATION_REQUEST.lock().await and the request taken
McLockRequest ==
  /\ LockFree("CALIBRATION_REQUEST")
  /\ LockStep("motor_control", "check",
              IF CALIBRATION_REQUEST THEN "request" ELSE "release",
              obs.held["motor_control"] \cup {"CALIBRATION_REQUEST"})
  /\ CALIBRATION_REQUEST' = FALSE
  /\ control_mode' = IF CALIBRATION_REQUEST THEN "Calibration" ELSE control_mode
  /\ calibration' = IF CALIBRATION_REQUEST THEN MotorCalibration_start(calibration)
                    ELSE calibration
  /\ UNCHANGED <<LockRest, MOTOR_ENABLE, TARGET_SPEED, CONTROL_MODE>>

\* lines 123-124: CONTROL_MODE.lock().await inside the block of line 114
McLockMode ==
  /\ LockFree("CONTROL_MODE")
  /\ LockStep("motor_control", "request", "release",
              obs.held["motor_control"] \cup {"CONTROL_MODE"})
  /\ CONTROL_MODE' = "Calibration"
  /\ UNCHANGED <<LockRest, MOTOR_ENABLE, TARGET_SPEED, CALIBRATION_REQUEST, control_mode,
                 calibration>>

\* a block that ends without dropping its guards
McUnlockRequest_keeps ==
  /\ \E to \in McLater(0) :
       LockStep("motor_control", "release", to, obs.held["motor_control"])
  /\ UNCHANGED <<LockRest, LockData>>

\* lines 125-126: the blocks end and drop their guards
McUnlockRequest ==
  /\ \E to \in McLater(0) :
       LockStep("motor_control", "release", to,
                obs.held["motor_control"] \ {"CALIBRATION_REQUEST", "CONTROL_MODE"})
  /\ UNCHANGED <<LockRest, LockData>>

\* lines 182, 232, 380, 390: one cell locked
McLockOne ==
  /\ \E i \in DOMAIN McSites :
       /\ LockFree(McSites[i].lock)
       /\ LockStep("motor_control", McSites[i].at, McSites[i].at,
                   obs.held["motor_control"] \cup {McSites[i].lock})
  /\ UNCHANGED <<LockRest, LockData>>

\* the statement or block of the site ends
McUnlockOne ==
  /\ \E i \in DOMAIN McSites : \E to \in McLater(i) :
       /\ McSites[i].lock \in obs.held["motor_control"]
       /\ LockStep("motor_control", McSites[i].at, to,
                   obs.held["motor_control"] \ {McSites[i].lock})
  /\ UNCHANGED <<LockRest, LockData>>

\* an iteration that would go to its Timer out of a section, guard kept
McSleep_holding ==
  /\ \E i \in DOMAIN McSites :
       /\ McSites[i].lock \in obs.held["motor_control"]
       /\ LockStep("motor_control", McSites[i].at, "timer", obs.held["motor_control"])
  /\ UNCHANGED <<LockRest, LockData>>

\* the Timer::after(...).await that ends the iteration
McSleep ==
  /\ LockStep("motor_control", "done", "timer", obs.held["motor_control"])
  /\ UNCHANGED <<LockRest, LockData>>

\* can.rs 58-292: a command or the status ticker makes can_task want a cell
CanReceive ==
  /\ \E l \in CanLocks : LockStep("can", "rx", l, {})
  /\ UNCHANGED <<LockRest, LockData>>

\* can.rs 61, 71, 82, 92, 236-237, 254-292: the cell locked and, for a
\* command, written
CanLockWanted ==
  /\ obs.held["can"] = {}
  /\ \E l \in CanLocks :
       /\ LockFree(l)
       /\ LockStep("can", l, l, {l})
       /\ CALIBRATION_REQUEST' = IF l = "CALIBRATION_REQUEST" THEN TRUE
                                 ELSE CALIBRATION_REQUEST
       /\ IF l = "MOTOR_ENABLE" THEN MOTOR_ENABLE' \in BOOLEAN
          ELSE MOTOR_ENABLE' = MOTOR_ENABLE
       /\ IF l = "TARGET_SPEED" THEN TARGET_SPEED' \in SpeedCommands
          ELSE TARGET_SPEED' = TARGET_SPEED
  /\ UNCHANGED <<LockRest, CONTROL_MODE, control_mode, calibration>>

CanUnlockOne ==
  /\ obs.held["can"] # {}
  /\ \E l \in CanLocks : LockStep("can", l, "rx", {})
  /\ UNCHANGED <<LockRest, LockData>>

\* voltage_monitor.rs 63: *VOLTAGE_STATE.lock().await = state
VmLockState ==
  /\ LockFree("VOLTAGE_STATE")
  /\ LockStep("voltage_monitor", "ticker", "s63", {"VOLTAGE_STATE"})
  /\ UNCHANGED <<LockRest, LockData>>

\* lines 63-66: the guard dropped and the state looked at
VmUnlockState ==
  /\ \E is_voltage_ok \in BOOLEAN :
       LockStep("voltage_monitor", "s63", IF is_voltage_ok THEN "ticker" ELSE "s67", {})
  /\ UNCHANGED <<LockRest, LockData>>

\* line 67: was_enabled read
VmLockRead ==
  /\ obs.held["voltage_monitor"] = {}
  /\ LockFree("MOTOR_ENABLE")
  /\ LockStep("voltage_monitor", "s67", "s67", {"MOTOR_ENABLE"})
  /\ UNCHANGED <<LockRest, LockData>>

\* lines 67-68
VmUnlockRead ==
  /\ obs.held["voltage_monitor"] # {}
  /\ LockStep("voltage_monitor", "s67", IF MOTOR_ENABLE THEN "s73" ELSE "ticker", {})
  /\ UNCHANGED <<LockRest, LockData>>

\* line 73: *MOTOR_ENABLE.lock().await = false
VmLockEnable ==
  /\ obs.held["voltage_monitor"] = {}
  /\ LockFree("MOTOR_ENABLE")
  /\ LockStep("voltage_monitor", "s73", "s73", {"MOTOR_ENABLE"})
  /\ MOTOR_ENABLE' = FALSE
  /\ UNCHANGED <<LockRest, TARGET_SPEED, CALIBRATION_REQUEST, CONTROL_MODE, control_mode,
                 calibration>>

VmUnlockEnable ==
  /\ obs.held["voltage_monitor"] # {}
  /\ LockStep("voltage_monitor", "s73", "s74", {})
  /\ UNCHANGED <<LockRest, LockData>>

\* line 74: *TARGET_SPEED.lock().await = 0.0
VmLockSpeed ==
  /\ obs.held["voltage_monitor"] = {}
  /\ LockFree("TARGET_SPEED")
  /\ LockStep("voltage_monitor", "s74", "s74", {"TARGET_SPEED"})
  /\ TARGET_SPEED' = 0
  /\ UNCHANGED <<LockRest, MOTOR_ENABLE, CALIBRATION_REQUEST, CONTROL_MODE, control_mode,
                 calibration>>

VmUnlockSpeed ==
  /\ obs.held["voltage_monitor"] # {}
  /\ LockStep("voltage_monitor", "s74", "ticker", {})
  /\ UNCHANGED <<LockRest, LockData>>

\* the steps of each task once it runs
McRun ==
  \/ McUnlockEnable \/ McLockRequest \/ McLockMode \/ McUnlockRequest
  \/ McLockOne \/ McUnlockOne \/ McSleep
CanRun == CanLockWanted \/ CanUnlockOne
VmRun ==
  \/ VmUnlockState \/ VmLockRead \/ VmUnlockRead \/ VmLockEnable \/ VmUnlockEnable
  \/ VmLockSpeed \/ VmUnlockSpeed

\* the executor wakes a task only while the others wait
NextLocks ==
  \/ OthersWait("motor_control") /\ McLockEnable
  \/ OthersWait("can") /\ CanReceive
  \/ OthersWait("voltage_monitor") /\ VmLockState
  \/ McRun \/ CanRun \/ VmRun

SpecLocks == Init /\ [][NextLocks]_vars

\* the same tasks with their lock operations interleaved freely: more than
\* the executor allows, so that a task can find a lock taken and wait for it
McAny == McLockEnable \/ McRun
CanAny == CanReceive \/ CanRun
VmAny == VmLockState \/ VmRun
NextLocksAny == McAny \/ CanAny \/ VmAny

\* a task that can take a step, now or time and again, takes it: the mutex
\* wakes a waiter when the lock is released
SpecLocksAny ==
  /\ Init /\ [][NextLocksAny]_vars
  /\ SF_vars(McAny) /\ SF_vars(CanAny) /\ SF_vars(VmAny)

\* ------------------------------------------------------------------------
\* The persisted configuration: main's start-up load and the three
\* configuration commands of can_task, over a last flash page that holds
\* any of a few images at power-up
\* ------------------------------------------------------------------------

\* a record somebody saved after a calibration and a change of the voltage
\* limit
SavedConfig ==
  LET c == [StoredConfig_default EXCEPT !.speed_kp = 10, !.max_voltage = 12,
                                        !.calibration_electrical_offset = 30,
                                        !.calibration_success = TRUE]
  IN [c EXCEPT !.crc32 = calculate_crc(c)]

\* the images of the last page at power-up: never written, the defaults,
\* a saved record, a saved record of another version, one with another
\* magic, and two whose CRC does not match
FlashImages ==
  LET d == initialize_default_config(ErasedPage, "ok").flash
      v == [SavedConfig EXCEPT !.version = CONFIG_VERSION + 1]
      m == [SavedConfig EXCEPT !.magic = CONFIG_MAGIC + 1]
  IN { ErasedPage, d, SavedConfig,
       [v EXCEPT !.crc32 = calculate_crc(v)],
       [m EXCEPT !.crc32 = calculate_crc(m)],
       [SavedConfig EXCEPT !.crc32 = SavedConfig.crc32 + 1],
       [SavedConfig EXCEPT !.speed_ki = 0] }

MaxVoltageCommands == {12, 24}

InitConfig ==
  /\ InitCells
  /\ CALIBRATION_RESULT = CalibrationResult_new
  /\ hall_sensor = HallSensor_new(DEFAULT_POLE_PAIRS, 0)
  /\ \E flash \in FlashImages : obs = [NoObs EXCEPT !.flash = flash, !.booted = FALSE]

ConfigRest == <<hall_vars, ctl_vars, MOTOR_ENABLE, CALIBRATION_REQUEST, TARGET_SPEED,
                CONTROL_MODE, MOTOR_STATUS>>

\* main.rs 76-113: the configuration loaded and applied to the shared cells
MainLoadConfig ==
  /\ ~obs.booted
  /\ \E outcome \in FlashOutcomes :
       LET l == load_or_initialize_config(obs.flash, outcome)
           loaded_config == l.config
       IN /\ obs' = [obs EXCEPT !.handler = "main", !.flash = l.flash,
                                !.RUNTIME_CONFIG = loaded_config,
                                !.CONFIG_VERSION = loaded_config.version,
                                !.CONFIG_CRC_VALID = TRUE,
                                !.booted = TRUE, !.load_error = l.err]
          /\ SPEED_PI_GAINS' = <<loaded_config.speed_kp, loaded_config.speed_ki>>
          /\ CALIBRATION_RESULT' =
               [electrical_offset |-> loaded_config.calibration_electrical_offset,
                direction_inversed |-> loaded_config.calibration_direction_inversed,
                success |-> loaded_config.calibration_success]
  /\ UNCHANGED ConfigRest

\* can.rs 85-108: SAVE_CONFIG
CanSaveConfig ==
  /\ obs.booted
  /\ \E outcome \in FlashOutcomes :
       LET config == [obs.RUNTIME_CONFIG EXCEPT
                        !.calibration_electrical_offset = CALIBRATION_RESULT.electrical_offset,
                        !.calibration_direction_inversed = CALIBRATION_RESULT.direction_inversed,
                        !.calibration_success = CALIBRATION_RESULT.success]
           w == write_config(obs.flash, config, outcome)
       IN obs' = [obs EXCEPT !.handler = "SAVE_CONFIG", !.flash = w.flash,
                             !.CONFIG_CRC_VALID = w.ok]
  /\ UNCHANGED <<ConfigRest, SPEED_PI_GAINS, CALIBRATION_RESULT>>

\* can.rs 109-131: RELOAD_CONFIG
CanReloadConfig ==
  /\ obs.booted
  /\ LET r == read_config(obs.flash)
         loaded_config == r.config
     IN IF r.ok
        THEN /\ obs' = [obs EXCEPT !.handler = "RELOAD_CONFIG",
                                   !.RUNTIME_CONFIG = loaded_config,
                                   !.CONFIG_VERSION = loaded_config.version,
                                   !.CONFIG_CRC_VALID = TRUE]
             /\ SPEED_PI_GAINS' = <<loaded_config.speed_kp, loaded_config.speed_ki>>
        ELSE /\ obs' = [obs EXCEPT !.handler = "RELOAD_CONFIG", !.CONFIG_CRC_VALID = FALSE]
             /\ UNCHANGED SPEED_PI_GAINS
  /\ UNCHANGED <<ConfigRest, CALIBRATION_RESULT>>

\* can.rs 132-155: RESET_CONFIG
CanResetConfig ==
  /\ obs.booted
  /\ \E outcome \in FlashOutcomes :
       LET w == initialize_default_config(obs.flash, outcome)
           default_config == w.config
       IN IF w.ok
          THEN /\ obs' = [obs EXCEPT !.handler = "RESET_CONFIG", !.flash = w.flash,
                                     !.RUNTIME_CONFIG = default_config,
                                     !.CONFIG_VERSION = default_config.version,
                                     !.CONFIG_CRC_VALID = TRUE]
               /\ SPEED_PI_GAINS' = <<default_config.speed_kp, default_config.speed_ki>>
          ELSE /\ obs' = [obs EXCEPT !.handler = "RESET_CONFIG", !.flash = w.flash,
                                     !.CONFIG_CRC_VALID = FALSE]
               /\ UNCHANGED SPEED_PI_GAINS
  /\ UNCHANGED <<ConfigRest, CALIBRATION_RESULT>>

\* can.rs 159-166: MOTOR_VOLTAGE_PARAMS changes the runtime configuration
CanMotorVoltageParams ==
  /\ obs.booted
  /\ \E max_voltage \in MaxVoltageCommands :
       obs' = [obs EXCEPT !.handler = "MOTOR_VOLTAGE_PARAMS",
                          !.RUNTIME_CONFIG.max_voltage = max_voltage]
  /\ UNCHANGED <<ConfigRest, SPEED_PI_GAINS, CALIBRATION_RESULT>>

NextConfig ==
  \/ MainLoadConfig \/ CanSaveConfig \/ CanReloadConfig \/ CanResetConfig
  \/ CanMotorVoltageParams

SpecConfig == InitConfig /\ [][NextConfig]_vars

\* ------------------------------------------------------------------------
\* The control iteration and the TIM4 interrupt that preempts it: the
\* interrupt runs at a higher priority than the executor, so it can come
\* between any two instructions of an iteration. Followed here: the
\* interrupt between the read of line 131 and hall_sensor.update at line 135
\* of a ClosedLoopFoc iteration.
\* ------------------------------------------------------------------------

\* lines 104-310 with a Hall edge or an overflow between lines 131 and 135
TickPreempted ==
  /\ control_mode = "ClosedLoopFoc"
  /\ ~CALIBRATION_REQUEST
  /\ \E uif \in BOOLEAN, ccif \in BOOLEAN, hall_state \in HallCodes, capture \in Captures :
       /\ tim4_statics(uif, ccif, hall_state, capture)
       /\ TickEnabledAt(MaxRot, HALL_STATE, HALL_STATE', PERIOD_CYCLES', TIMEOUT_FLAG')

NextPreempt ==
  \/ Tim4Irq
  \/ Tick
  \/ TickPreempted
  \/ \E speed \in SpeedCommands \ {TARGET_SPEED} : CanSpeedCmd(speed)
  \/ \E enable \in BOOLEAN \ {MOTOR_ENABLE} : CanEnableCmd(enable)

SpecPreempt == Init /\ [][NextPreempt]_vars

\* ------------------------------------------------------------------------
\* OpenLoopSixStep on its own: new, update (with the PWM writes of
\* motor_control.rs 156-178) and reset
\* ------------------------------------------------------------------------

\* step periods of the initial and of the target speed, in control periods;
\* the target speed is not below the initial speed
OlInitialPeriods == {2, 5, 9}
OlMinPeriods == {1, 2, 4}
OlDuties == {50, DEFAULT_DUTY_RATIO}

OlRest == <<hall_vars, shared_vars, hall_sensor, speed_pi, calibration, control_mode,
            ramped_target_speed, was_enabled>>

\* OpenLoopSixStep::new
OlNew ==
  \E initial_step_period \in OlInitialPeriods, min_step_period \in OlMinPeriods,
     duty_ratio \in OlDuties :
    /\ initial_step_period >= min_step_period
    /\ openloop' = [OpenLoopSixStep_new EXCEPT !.step_period = initial_step_period,
                                               !.initial_step_period = initial_step_period,
                                               !.min_step_period = min_step_period,
                                               !.duty_ratio = duty_ratio]
    /\ obs' = [NoObs EXCEPT !.handler = "new"]
    /\ UNCHANGED <<OlRest, uvw_pwm>>

\* OpenLoopSixStep::update and the step state it returns written to the PWM
OlUpdate ==
  LET o == OpenLoopSixStep_update(openloop)
      step_state == get_step_state(o.current_step, o.duty_ratio)
  IN /\ openloop' = o
     /\ uvw_pwm' = [duty |-> step_state.duty, enable |-> step_state.enable]
     /\ obs' = [NoObs EXCEPT !.handler = "update"]
     /\ UNCHANGED OlRest

\* OpenLoopSixStep::reset
OlReset ==
  /\ openloop' = OpenLoopSixStep_reset(openloop)
  /\ obs' = [NoObs EXCEPT !.handler = "reset"]
  /\ UNCHANGED <<OlRest, uvw_pwm>>

NextOpenLoop == OlNew \/ OlUpdate \/ OlReset

\* the control loop calls update once per control period for as long as the
\* drive is in OpenLoop
SpecOpenLoop == Init /\ [][NextOpenLoop]_vars /\ WF_vars(OlUpdate)

\* ------------------------------------------------------------------------
\* Properties of the control tick
\* ------------------------------------------------------------------------

\* a control tick has just ended, and it began with MOTOR_ENABLE set and
\* consumed no calibration request
PlainTickEnded == obs.handler # "none" /\ MOTOR_ENABLE /\ ~obs.started

\* C1: in ClosedLoopFoc, a control tick whose Hall code is not in 1..6 leaves
\* the three PWM duties at 0, the PI integral and last output at 0 and the
\* ramped target speed at 0, calls no PI update, writes no status, and the
\* mode is still ClosedLoopFoc.
C1_InvalidHallStopsFoc ==
  (PlainTickEnded /\ obs.mode_before = "ClosedLoopFoc" /\ ~obs.hall_valid)
    => /\ uvw_pwm.duty = ZeroDuty
       /\ speed_pi.integral = 0
       /\ speed_pi.last_output = 0
       /\ ramped_target_speed = 0
       /\ ~obs.pi_updated
       /\ ~obs.status_written
       /\ control_mode = "ClosedLoopFoc"

\* an invalid-code tick in ClosedLoopFoc while a nonzero speed is commanded
\* and the bridge is enabled
C1_Witness ==
  /\ PlainTickEnded /\ obs.mode_before = "ClosedLoopFoc" /\ ~obs.hall_valid
  /\ TARGET_SPEED = INITIAL_TARGET_SPEED
  /\ uvw_pwm.enable = AllEnabled

\* C2: a control tick that begins with MOTOR_ENABLE false ends with the three
\* PWM channels disabled at duty 0, the PI integral 0, the Hall estimator and
\* the open-loop starter reset, the ramped target 0 and the mode OpenLoop; so
\* after a disable request (which only clears MOTOR_ENABLE) the PWM is off at
\* the end of the next control tick.
C2_DisabledTickShutsDown ==
  (obs.handler # "none" /\ ~MOTOR_ENABLE)
    => /\ uvw_pwm.enable = AllDisabled
       /\ uvw_pwm.duty = ZeroDuty
       /\ speed_pi.integral = 0
       /\ hall_sensor.prev_state = NO_STATE
       /\ hall_sensor.mechanical_angle = 0
       /\ hall_sensor.hall_idx_base = 0
       /\ hall_sensor.speed_rpm = 0
       /\ hall_sensor.time_since_edge = 0
       /\ openloop.current_step = 0
       /\ openloop.step_period = openloop.initial_step_period
       /\ openloop.elapsed_time = 0
       /\ ramped_target_speed = 0
       /\ control_mode = "OpenLoop"

\* a disabled tick that took the drive out of ClosedLoopFoc
C2_Witness ==
  /\ obs.handler # "none" /\ ~MOTOR_ENABLE
  /\ obs.mode_before = "ClosedLoopFoc"
  /\ control_mode = "OpenLoop"

C4_SwitchNeedsHallAndTarget ==
  [][(control_mode = "OpenLoop" /\ obs'.handler # "none" /\ MOTOR_ENABLE
        /\ ~CALIBRATION_REQUEST)
       => IF HALL_STATE \in 1..6 /\ openloop.step_period <= openloop.min_step_period
          THEN control_mode' = "ClosedLoopFoc"
          ELSE control_mode' = "OpenLoop"]_vars

\* the tick that switched OpenLoop to ClosedLoopFoc
C4_Witness ==
  /\ PlainTickEnded /\ obs.mode_before = "OpenLoop" /\ obs.switched
  /\ control_mode = "ClosedLoopFoc"

\* C5: a control tick that begins with MOTOR_ENABLE and CALIBRATION_REQUEST
\* set, in whatever mode, clears the request, restarts the calibrator from
\* Init with a cleared result and cleared sector records and runs the
\* Calibration arm in that tick (whose Init step leaves the calibrator in
\* FindDirection).
C5_RequestStartsCalibration ==
  [][(obs'.handler # "none" /\ MOTOR_ENABLE /\ CALIBRATION_REQUEST)
       => /\ ~CALIBRATION_REQUEST'
          /\ obs'.handler = "Calibration"
          /\ control_mode' = "Calibration"
          /\ calibration'.state = "FindDirection"
          /\ calibration'.result = CalibrationResult_new
          /\ calibration'.sector_angles = NoSectors
          /\ calibration'.shaft_position_req.rotations = 0
          /\ calibration'.shaft_position_req.angle = 0]_vars

\* a request consumed while a calibration was already running
C5_Witness ==
  /\ obs.handler = "Calibration" /\ obs.started
  /\ obs.mode_before = "Calibration"
  /\ calibration.state = "FindDirection"
  /\ ~CALIBRATION_REQUEST

\* C6: in ClosedLoopFoc, a control tick that reads the capture timeout flag
\* set is handled like a tick with an invalid Hall code, also when the Hall
\* code is in 1..6: PWM duties 0, PI reset, ramped target 0, and the rest of
\* the tick (PI update, status write) skipped.
C6_TimeoutStopsFoc ==
  (PlainTickEnded /\ obs.mode_before = "ClosedLoopFoc" /\ obs.timeout)
    => /\ uvw_pwm.duty = ZeroDuty
       /\ speed_pi.integral = 0
       /\ speed_pi.last_output = 0
       /\ ramped_target_speed = 0
       /\ ~obs.pi_updated
       /\ ~obs.status_written

\* C7: every tick that brings the mode to OpenLoop from another mode (a
\* disabled tick, or a failed calibration) leaves the open-loop starter at
\* step 0 with its initial step period, the PI integral 0 and the Hall
\* estimator reset.
C7_OpenLoopEntryResets ==
  (obs.handler # "none" /\ obs.mode_before # "OpenLoop" /\ control_mode = "OpenLoop")
    => /\ openloop.current_step = 0
       /\ openloop.step_period = openloop.initial_step_period
       /\ speed_pi.integral = 0
       /\ hall_sensor.prev_state = NO_STATE
       /\ hall_sensor.mechanical_angle = 0
       /\ hall_sensor.hall_idx_base = 0
       /\ hall_sensor.speed_rpm = 0
       /\ hall_sensor.time_since_edge = 0

\* C8: on the tick that switches OpenLoop to ClosedLoopFoc the estimator's
\* filtered speed is get_current_rpm(), the PI update of that tick gets this
\* seeded speed as its measured speed, and the speed error of that update
\* (ramped target minus measured speed) is at most one ramp step.
C8_SwitchSeedsSpeed ==
  (PlainTickEnded /\ obs.switched)
    => /\ hall_sensor.speed_rpm = get_current_rpm(openloop)
       /\ obs.pi_updated
       /\ obs.pi_measured = get_current_rpm(openloop)
       /\ Abs(ramped_target_speed - obs.pi_measured) <= MAX_DELTA_SPEED

C9_StatesMoveForward ==
  [][obs'.handler # "start" =>
       \/ calibration'.state = calibration.state
       \/ <<calibration.state, calibration'.state>> \in
            {<<"Init", "FindDirection">>, <<"FindDirection", "MeasureSectors">>,
             <<"MeasureSectors", "ReturnToStart">>, <<"ReturnToStart", "Completed">>}
       \/ /\ calibration.state = "FindDirection" /\ calibration'.state = "Completed"
          /\ ~obs'.cal_ok /\ ~calibration'.result.success]_vars

\* an update in Completed, reached through all five states, that stays there
C9_Witness ==
  /\ obs.handler = "update" /\ obs.mode_before = "Completed"
  /\ calibration.state = "Completed"
  /\ calibration.result.success
  /\ \A i \in Sectors : calibration.sector_angles[i] # None

\* C10: the update in FindDirection that finds the requested position at one
\* rotation or more: if the actual position has 0 rotations and an angle
\* below the movement threshold, it returns Err, result.success is false and
\* the state is Completed; otherwise it returns Ok, direction_inversed is
\* (actual accumulated position < 0) and the state is MeasureSectors.
C10_FindDirectionDecides ==
  [][(obs'.handler = "update" /\ calibration.state = "FindDirection"
        /\ calibration.shaft_position_req.rotations >= 1)
       => LET act == calibration'.shaft_position_act
          IN IF act.rotations = 0 /\ act.angle < MOVE_THRESHOLD
             THEN /\ ~obs'.cal_ok
                  /\ ~calibration'.result.success
                  /\ calibration'.state = "Completed"
             ELSE /\ obs'.cal_ok
                  /\ calibration'.result.direction_inversed
                       = (act.rotations * TAU + act.angle < 0)
                  /\ calibration'.state = "MeasureSectors"]_vars

\* a FindDirection that ended with the direction found inversed
C10_Witness ==
  /\ obs.handler = "update" /\ obs.mode_before = "FindDirection"
  /\ calibration.state = "MeasureSectors"
  /\ calibration.result.direction_inversed
  /\ calibration.shaft_position_act.rotations < 0

\* C13: an update in MeasureSectors never overwrites a recorded sector angle,
\* records nothing when the Hall code is 0 or 7, records the angle of sector
\* 1..6 only if that sector is the one the calibrator has been waiting in
\* and the wait counter, which counts the earlier updates spent in that
\* sector since it was entered, has reached the settle count; and the state
\* becomes ReturnToStart on exactly the update that records the sixth sector.
C13_SectorsRecordedOnce ==
  [][(obs'.handler = "update" /\ calibration.state = "MeasureSectors")
       => LET old == calibration.sector_angles
              new == calibration'.sector_angles
              recorded == {i \in Sectors : new[i] # old[i]}
          IN /\ \A i \in Sectors : old[i] # None => new[i] = old[i]
             /\ HALL_STATE \notin 1..6 => recorded = {}
             /\ \A i \in recorded :
                  /\ i = HALL_STATE
                  /\ calibration.prev_hall_sector = i
                  /\ calibration.sector_wait_counter >= SETTLE_TICKS
             /\ calibration'.prev_hall_sector # calibration.prev_hall_sector
                  => calibration'.sector_wait_counter = 1
             /\ calibration'.sector_wait_counter > calibration.sector_wait_counter
                  => /\ calibration'.prev_hall_sector = HALL_STATE
                     /\ calibration'.sector_wait_counter
                          = (IF calibration.prev_hall_sector = HALL_STATE
                             THEN calibration.sector_wait_counter ELSE 0) + 1
             /\ calibration'.state = "ReturnToStart"
                  <=> (recorded # {} /\ \A i \in Sectors : new[i] # None)
             /\ calibration'.state \in {"MeasureSectors", "ReturnToStart"}]_vars

\* the update that recorded the sixth sector
C13_Witness ==
  /\ obs.handler = "update" /\ obs.mode_before = "MeasureSectors"
  /\ calibration.state = "ReturnToStart"
  /\ \A i \in Sectors : calibration.sector_angles[i] # None
  /\ calibration.sector_wait_counter >= SETTLE_TICKS

\* C14: an update in ReturnToStart that finds the requested position at 0
\* rotations and an angle below a quarter turn makes the state Completed with
\* result.success true and returns torque 0; any other update in
\* ReturnToStart lowers the requested position by one return step and leaves
\* it at 0 or above, so that the former happens after finitely many updates.
\* In every state, result.success implies that the state is Completed and
\* that all six sector angles are recorded.
C14_ReturnToStartCompletes ==
  /\ [][(obs'.handler = "update" /\ calibration.state = "ReturnToStart")
         => LET req == calibration.shaft_position_req
                req_after == calibration'.shaft_position_req
            IN IF req.rotations = 0 /\ 4 * req.angle < TAU
               THEN /\ calibration'.state = "Completed"
                    /\ calibration'.result.success
                    /\ obs'.cal_ok
                    /\ obs'.cal_torque = 0
               ELSE /\ calibration'.state = "ReturnToStart"
                    /\ ~calibration'.result.success
                    /\ req_after.rotations * TAU + req_after.angle
                         = req.rotations * TAU + req.angle - RETURN_STEP
                    /\ req_after.rotations * TAU + req_after.angle >= 0]_vars
  /\ [](calibration.result.success
          => /\ calibration.state = "Completed"
             /\ \A i \in Sectors : calibration.sector_angles[i] # None)

\* the update that completed the return, one step after a lowering update
C14_Witness ==
  /\ obs.handler = "update" /\ obs.mode_before = "ReturnToStart"
  /\ calibration.state = "Completed"
  /\ calibration.result.success
  /\ obs.cal_torque = 0
  /\ calibration.shaft_position_req.rotations = 0
  /\ calibration.shaft_position_req.angle = 0

\* ------------------------------------------------------------------------
\* Properties of a calibration with a resting rotor
\* ------------------------------------------------------------------------

\* C11: when the motor does not move during a calibration session (the
\* sensor angle given to update is the same on every tick), the session ends
\* in failure: the update in FindDirection that finds the requested position
\* at one rotation or more returns Err with result.success false and the
\* state Completed, and the calibrator never reports success.
C11_StillMotorFails ==
  /\ [][(obs'.handler = "Calibration" /\ ~CALIBRATION_REQUEST
          /\ calibration.state = "FindDirection"
          /\ calibration.shaft_position_req.rotations >= 1)
         => /\ ~obs'.cal_ok
            /\ ~calibration'.result.success
            /\ calibration'.state = "Completed"]_vars
  /\ [](~calibration.result.success)

C16_FailurePublished ==
  (obs.handler = "Calibration" /\ control_mode = "OpenLoop")
    => ~CALIBRATION_RESULT.success

\* ------------------------------------------------------------------------
\* Properties of the Hall position estimator
\* ------------------------------------------------------------------------

\* C17: starting from a reset estimator, when two consecutive updates with a
\* valid code and a measured period see the normalized index go from 5 to 0,
\* hall_idx_base increases by 6, wrapping to 0 at 6 x pole_pairs, and when
\* they see it go from 0 to 5 it decreases by 6, wrapping to
\* 6 x pole_pairs - 6.
C17_IndexBaseWraps ==
  [][(obs'.handler = "HallUpdate" /\ obs.hall_index # NO_STATE /\ obs'.hall_index # NO_STATE)
      => /\ (obs.hall_index = 5 /\ obs'.hall_index = 0)
              => hall_sensor'.hall_idx_base
                   = (hall_sensor.hall_idx_base + 6) % hall_sensor.hall_idx_max
         /\ (obs.hall_index = 0 /\ obs'.hall_index = 5)
              => hall_sensor'.hall_idx_base
                   = (hall_sensor.hall_idx_base + hall_sensor.hall_idx_max - 6)
                       % hall_sensor.hall_idx_max]_vars

\* C18: an estimator update whose raw code is 0 or 7 leaves mechanical_angle,
\* hall_idx_base and prev_state as they were and returns the electrical angle
\* of the held mechanical angle, mechanical_angle x pole_pairs - offset.
C18_InvalidCodeHolds ==
  [][(obs'.handler = "HallUpdate" /\ HALL_STATE \in {0, 7})
      => /\ hall_sensor'.mechanical_angle = hall_sensor.mechanical_angle
         /\ hall_sensor'.hall_idx_base = hall_sensor.hall_idx_base
         /\ hall_sensor'.prev_state = hall_sensor.prev_state
         /\ obs'.hall_angle = hall_sensor.mechanical_angle * hall_sensor.pole_pairs
                                - hall_sensor.electrical_offset]_vars

\* an update with raw code 0 or 7 that held an interpolated angle of a
\* nonzero sector under a nonzero offset
C18_Witness ==
  /\ obs.handler = "HallUpdate" /\ HALL_STATE \in {0, 7}
  /\ hall_sensor.mechanical_angle % hall_sensor.angle_per_state # 0
  /\ hall_sensor.electrical_offset # 0
  /\ obs.hall_angle = hall_sensor.mechanical_angle * hall_sensor.pole_pairs
                        - hall_sensor.electrical_offset

\* C19 as amended: an estimator update returns speed 0 when the timeout flag
\* is set, or when the code is valid and the period is 0; an update whose raw
\* code is 0 or 7 while the timeout flag is clear returns the filtered speed
\* the estimator held before it, unchanged.
C19_TimeoutZeroesSpeed ==
  [][(obs'.handler = "HallUpdate")
      => /\ (TIMEOUT_FLAG \/ (is_valid_state(HALL_STATE) /\ PERIOD_CYCLES = 0))
              => /\ obs'.hall_speed = 0
                 /\ hall_sensor'.speed_rpm = 0
         /\ (~is_valid_state(HALL_STATE) /\ ~TIMEOUT_FLAG)
              => /\ obs'.hall_speed = hall_sensor.speed_rpm
                 /\ hall_sensor'.speed_rpm = hall_sensor.speed_rpm]_vars

\* a timed-out update of an estimator whose filtered speed was not 0
C19_Witness ==
  /\ obs.handler = "HallUpdate" /\ obs.timeout
  /\ obs.hall_speed_before # 0
  /\ obs.hall_speed = 0

\* C19 as stated: on every estimator update whose raw code is 0 or 7, or
\* whose timeout flag is set or period is 0, the speed returned is 0.
C19_InvalidZeroesSpeed ==
  [][(obs'.handler = "HallUpdate"
        /\ (HALL_STATE \in {0, 7} \/ TIMEOUT_FLAG \/ PERIOD_CYCLES = 0))
      => obs'.hall_speed = 0]_vars

\* C20: the lookup is one-to-one from raw codes 1..6 onto indices 0..5, codes
\* 0 and 7 fail is_valid_state, and the rotation sequence 1, 3, 2, 6, 4, 5
\* maps to 0, 1, 2, 3, 4, 5; so the index an update works with names the
\* position of the captured code in that sequence, and no update works with
\* an index for code 0 or 7.
C20_TableIsBijection ==
  /\ \A a, b \in 1..6 : HALL_STATE_TABLE(a) = HALL_STATE_TABLE(b) => a = b
  /\ {HALL_STATE_TABLE(a) : a \in 1..6} = 0..5
  /\ ~is_valid_state(0) /\ ~is_valid_state(7)
  /\ HALL_STATE_TABLE(0) = NO_STATE /\ HALL_STATE_TABLE(7) = NO_STATE
  /\ \A k \in 1..6 : HALL_STATE_TABLE(HALL_SEQUENCE[k]) = k - 1
  /\ (obs.handler = "HallUpdate" /\ obs.hall_index # NO_STATE)
       => /\ obs.hall_index \in 0..5
          /\ HALL_SEQUENCE[obs.hall_index + 1] = HALL_STATE
  /\ (obs.handler = "HallUpdate" /\ HALL_STATE \in {0, 7})
       => /\ ~obs.hall_valid
          /\ obs.hall_index = NO_STATE

\* an update that saw raw code 6, the fourth of the rotation sequence, as
\* index 3 and placed the rotor in the fourth sector
C20_Witness ==
  /\ obs.handler = "HallUpdate" /\ HALL_STATE = 6
  /\ obs.hall_index = 3
  /\ hall_sensor.mechanical_angle = 3 * hall_sensor.angle_per_state

\* ------------------------------------------------------------------------
\* Properties of the TIM4 handler
\* ------------------------------------------------------------------------

\* C21 as amended: the stall flag is set exactly when more than the
\* threshold of overflows have been counted since the last Hall edge or the
\* last reset_state, and the stored period is 0 while it is set; it is
\* cleared only by a Hall edge or by reset_state; every Hall edge clears it,
\* zeroes the overflow counter and stores the raw code and the period
\* (overflows x 65536 + capture); reset_state clears it and zeroes the
\* counter and the period.
C21_StallFlag ==
  /\ [](TIMEOUT_FLAG <=> obs.since_reset > TimTimeoutOverflows)
  /\ [](TIMEOUT_FLAG => PERIOD_CYCLES = 0)
  /\ [][(TIMEOUT_FLAG /\ ~TIMEOUT_FLAG')
          => ((obs'.handler = "tim4" /\ obs'.irq.ccif) \/ obs'.handler = "reset_state")]_vars
  /\ [][(obs'.handler = "tim4" /\ obs'.irq.ccif)
          => /\ ~TIMEOUT_FLAG'
             /\ OVERFLOW_COUNTER' = 0
             /\ HALL_STATE' = obs'.irq.hall_state
             /\ PERIOD_CYCLES' = (obs.since_reset + IF obs'.irq.uif THEN 1 ELSE 0) * ARR_COUNTS
                                   + obs'.irq.capture]_vars
  /\ [][(obs'.handler = "reset_state")
          => (~TIMEOUT_FLAG' /\ OVERFLOW_COUNTER' = 0 /\ PERIOD_CYCLES' = 0)]_vars

\* the overflow that raises the stall flag: the third since a Hall edge that
\* had stored a nonzero period
C21_Witness ==
  /\ obs.handler = "tim4" /\ obs.irq.uif /\ ~obs.irq.ccif
  /\ obs.since_edge = TimTimeoutOverflows + 1
  /\ obs.since_reset = obs.since_edge
  /\ TIMEOUT_FLAG /\ PERIOD_CYCLES = 0
  /\ HALL_STATE \in 1..6

\* C21 as stated: the stall flag is set exactly when more than the threshold
\* of overflows have occurred since the last Hall edge, and once set it is
\* cleared by nothing but a Hall edge.
C21_StallFlagUntilEdge ==
  /\ [](TIMEOUT_FLAG <=> obs.since_edge > TimTimeoutOverflows)
  /\ [][(TIMEOUT_FLAG /\ ~TIMEOUT_FLAG')
          => (obs'.handler = "tim4" /\ obs'.irq.ccif)]_vars

\* ------------------------------------------------------------------------
\* Properties of ShaftPosition
\* ------------------------------------------------------------------------

\* C22: from a new ShaftPosition the samples 1.0, 2.0, 6.0, 0.5 rad given to
\* update_shaft_angle end with rotations = 1, and the samples 1.0, 6.0, 0.5
\* end with get_position() = 2 pi + 0.5.
C22_ForwardCrossingCounted ==
  /\ (obs.sampled /\ obs.samples = <<57, 115, 344, 29>>)
       => calibration.shaft_position_act.rotations = 1
  /\ (obs.sampled /\ obs.samples = <<57, 344, 29>>)
       => get_position(calibration.shaft_position_act) = TAU + 29

C24_AntiWindup ==
  [][(obs'.handler = "pi_update")
      => LET error == obs'.arg - obs'.pi_measured
             inside == /\ speed_pi.last_output > speed_pi.output_min
                       /\ speed_pi.last_output < speed_pi.output_max
         IN /\ speed_pi'.integral = IF inside THEN speed_pi.integral + error
                                     ELSE speed_pi.integral
            /\ speed_pi'.last_output >= speed_pi.output_min
            /\ speed_pi'.last_output <= speed_pi.output_max]_vars

\* an update with a nonzero error that found last_output at output_max and
\* came out of saturation
C24_Witness ==
  /\ obs.handler = "pi_update"
  /\ obs.pi_output_before = speed_pi.output_max
  /\ obs.arg # obs.pi_measured
  /\ speed_pi.integral > 0
  /\ speed_pi.last_output < speed_pi.output_max

\* ------------------------------------------------------------------------
\* Properties of calculate_svpwm
\* ------------------------------------------------------------------------

\* C25: for every input calculate_svpwm returns three duties within
\* [0, max_duty]; with v_dc <= 0 all three are max_duty / 2 (integer
\* division); with a zero voltage vector and v_dc > 0 all three are half of
\* max_duty, rounded.
C25_DutiesInRange ==
  (obs.handler = "calculate_svpwm")
    => LET v_alpha == obs.arg[1]
           v_beta == obs.arg[2]
           v_dc == obs.arg[3]
           max_duty == obs.arg[4]
       IN /\ \A i \in 1..3 : uvw_pwm.duty[i] >= 0 /\ uvw_pwm.duty[i] <= max_duty
          /\ v_dc <= 0 => \A i \in 1..3 : uvw_pwm.duty[i] = max_duty \div 2
          /\ (v_dc > 0 /\ v_alpha = 0 /\ v_beta = 0)
               => \A i \in 1..3 : uvw_pwm.duty[i] = (max_duty + 1) \div 2

\* a voltage vector far above the bus voltage: one phase held at max_duty
\* and one at 0
C25_Witness ==
  /\ obs.handler = "calculate_svpwm"
  /\ obs.arg[3] > 0 /\ obs.arg[4] = 101
  /\ Abs(obs.arg[1]) = 48000
  /\ \E i, j \in 1..3 : uvw_pwm.duty[i] = 101 /\ uvw_pwm.duty[j] = 0

\* ------------------------------------------------------------------------
\* Properties of calculate_offset
\* ------------------------------------------------------------------------

\* C26: when the six per-sector differences (recorded minus expected angle)
\* all lie within delta of a common angle theta on the circle, the offset
\* calculate_offset stores lies within delta of theta modulo 2 pi, also for
\* theta near pi, and it is in [0, 2 pi).
C26_OffsetIsCircularMean ==
  (obs.handler = "calculate_offset")
    => LET offset == calibration.result.electrical_offset
           d == clamp(offset - obs.arg[1])
       IN /\ offset >= 0 /\ offset < TAU
          /\ (d <= obs.arg[2] \/ TAU - d <= obs.arg[2])

\* ------------------------------------------------------------------------
\* Properties of the locks
\* ------------------------------------------------------------------------

\* C27: no task holds two of the shared-state locks at the same time, and a
\* task that waits for its Timer or for a frame holds none.
C27_OneLockAtATime ==
  \A t \in Tasks :
    /\ Cardinality(obs.held[t]) <= 1
    /\ obs.pc[t] = AllSuspended[t] => obs.held[t] = {}

\* C27 (amended): a task that waits for its Timer or for a frame holds no
\* lock, and while one task runs the other holds none, so no lock().await
\* ever waits; a task holds one lock at a time except motor_control_task,
\* which holds CALIBRATION_REQUEST and CONTROL_MODE together right after it
\* has taken a calibration request.
C27_LockDiscipline ==
  /\ \A t \in Tasks : obs.pc[t] = AllSuspended[t] => obs.held[t] = {}
  /\ \A t \in Tasks : obs.pc[t] # AllSuspended[t] =>
       \A u \in Tasks \ {t} : obs.held[u] = {}
  /\ Cardinality(obs.held["can"]) <= 1
  /\ Cardinality(obs.held["voltage_monitor"]) <= 1
  /\ \/ Cardinality(obs.held["motor_control"]) <= 1
     \/ /\ obs.held["motor_control"] = {"CALIBRATION_REQUEST", "CONTROL_MODE"}
        /\ obs.pc["motor_control"] = "release"
        /\ control_mode = "Calibration"

\* the control task holds both locks of the calibration-request section
C27_Witness ==
  /\ obs.held["motor_control"] = {"CALIBRATION_REQUEST", "CONTROL_MODE"}
  /\ CONTROL_MODE = "Calibration"

\* ------------------------------------------------------------------------
\* Properties of the shared control mode
\* ------------------------------------------------------------------------

\* C28: at the end of every control tick the shared CONTROL_MODE equals the
\* mode the coordinator is in.
C28_SharedModeFollows ==
  obs.handler # "none" => CONTROL_MODE = control_mode

\* ------------------------------------------------------------------------
\* Properties of the configuration load
\* ------------------------------------------------------------------------

\* C29: when the stored configuration fails validation at load, the system
\* continues with the compiled-in defaults and the reported configuration
\* status has crc_valid false.
C29_FailedLoadReportsCrcInvalid ==
  (obs.handler = "main" /\ obs.load_error # "none")
    => /\ [obs.RUNTIME_CONFIG EXCEPT !.crc32 = 0] = StoredConfig_default
       /\ ~obs.CONFIG_CRC_VALID

\* ------------------------------------------------------------------------
\* Properties of the iteration under preemption
\* ------------------------------------------------------------------------

\* C30: in a ClosedLoopFoc tick the code of the validity check and the code
\* of the estimator update come from the same capture: no tick writes FOC
\* duties from an estimator update that saw an invalid code, and none takes
\* the safety stop after an estimator update that saw a valid one.
C30_OneCapturePerTick ==
  /\ obs.handler = "ClosedLoopFoc" => obs.hall_seen \in 1..6
  /\ (obs.handler = "FocFault" /\ obs.mode_before = "ClosedLoopFoc")
       => obs.hall_seen \notin 1..6

\* ------------------------------------------------------------------------
\* Properties of the locks under free interleaving
\* ------------------------------------------------------------------------

\* C31: the three tasks never deadlock on the shared-state locks: whatever
\* the interleaving of their lock operations, a task that has left its
\* timer, its frame wait or its ticker gets every lock it asks for and comes
\* back to it.
C31_NoDeadlock ==
  \A t \in Tasks : (obs.pc[t] # AllSuspended[t]) ~> (obs.pc[t] = AllSuspended[t])

\* the control task asks for CALIBRATION_REQUEST while can_task holds it
C31_Witness ==
  /\ obs.pc["motor_control"] = "check"
  /\ "CALIBRATION_REQUEST" \in obs.held["can"]
  /\ "MOTOR_ENABLE" \in obs.held["voltage_monitor"]

\* ------------------------------------------------------------------------
\* The open-loop start-up
\* ------------------------------------------------------------------------

\* control ticks the starter still needs before is_target_reached(): the
\* step period weighs more than the time spent in the current step
OpenLoopRank(o) == o.step_period * (o.initial_step_period + 1) - o.elapsed_time

\* C32: a control tick that begins enabled, without a calibration request
\* and in OpenLoop either switches to ClosedLoopFoc or stays in OpenLoop
\* with six-step commutation; with a Hall code in 1..6 it switches unless
\* the starter is still above its minimum step period, and then the tick
\* brings the starter strictly nearer to it (so the switch comes after
\* finitely many such ticks); with an invalid Hall code the mode stays
\* OpenLoop, the step period never grows and, once at the minimum, stays
\* there. No step other than a control tick touches the starter or the mode.
C32_OpenLoopLeadsToFoc ==
  [][/\ obs'.handler = "none" => UNCHANGED <<openloop, control_mode>>
     /\ (control_mode = "OpenLoop" /\ obs'.handler # "none" /\ MOTOR_ENABLE
           /\ ~CALIBRATION_REQUEST)
        => IF HALL_STATE \in 1..6
           THEN \/ control_mode' = "ClosedLoopFoc"
                \/ /\ control_mode' = "OpenLoop"
                   /\ ~is_target_reached(openloop)
                   /\ OpenLoopRank(openloop') < OpenLoopRank(openloop)
                   /\ OpenLoopRank(openloop') >= 0
           ELSE /\ control_mode' = "OpenLoop"
                /\ uvw_pwm' = [duty |-> get_step_state(openloop'.current_step,
                                                       openloop'.duty_ratio).duty,
                               enable |-> get_step_state(openloop'.current_step,
                                                         openloop'.duty_ratio).enable]
                /\ openloop'.step_period <= openloop.step_period
                /\ openloop'.step_period >= openloop'.min_step_period
                /\ is_target_reached(openloop)
                     => openloop'.step_period = openloop'.min_step_period]_vars

\* a tick that ran the OpenLoop arm with a valid Hall code while the starter
\* was still accelerating
C32_Witness ==
  /\ PlainTickEnded /\ obs.handler = "OpenLoop" /\ obs.hall_valid
  /\ control_mode = "OpenLoop" /\ openloop.elapsed_time > 0

\* ------------------------------------------------------------------------
\* The ClosedLoopFoc arm
\* ------------------------------------------------------------------------

\* C33: a tick that begins enabled, in ClosedLoopFoc, without a calibration
\* request and with a Hall code in 1..6 runs the speed loop, and every tick
\* that runs the speed loop moves the ramped target from the value the ramp
\* starts from (the open-loop speed on the switching tick, the stored ramped
\* target otherwise) toward TARGET_SPEED by at most MAX_DELTA_SPEED, never
\* past it; it sets it equal to TARGET_SPEED when the distance is at most
\* one step and otherwise strictly shortens the distance, so under a
\* constant command the ramped target equals it after finitely many ticks
\* and then stays equal.
C33_RampFollowsTarget ==
  [][/\ (control_mode = "ClosedLoopFoc" /\ obs'.handler # "none" /\ MOTOR_ENABLE
           /\ ~CALIBRATION_REQUEST /\ HALL_STATE \in 1..6)
        => obs'.handler = "ClosedLoopFoc" /\ ~obs'.switched
     /\ obs'.handler = "ClosedLoopFoc"
        => LET base == IF obs'.switched THEN get_current_rpm(openloop)
                       ELSE ramped_target_speed
               new == ramped_target_speed'
           IN /\ Abs(new - base) <= MAX_DELTA_SPEED
              /\ base <= TARGET_SPEED => (base <= new /\ new <= TARGET_SPEED)
              /\ base >= TARGET_SPEED => (base >= new /\ new >= TARGET_SPEED)
              /\ Abs(TARGET_SPEED - base) <= MAX_DELTA_SPEED => new = TARGET_SPEED
              /\ Abs(TARGET_SPEED - base) > MAX_DELTA_SPEED
                   => Abs(TARGET_SPEED - new) < Abs(TARGET_SPEED - base)]_vars

\* a speed-loop tick that left the ramped target one step short of the command
C33_Witness ==
  /\ PlainTickEnded /\ obs.handler = "ClosedLoopFoc" /\ obs.mode_before = "ClosedLoopFoc"
  /\ ramped_target_speed # TARGET_SPEED

\* C34: after a tick that ran the speed loop with the ramped target and the
\* measured speed both below 1 RPM in magnitude, the PI integral and last
\* output are 0 and the duties are those of a q-axis (and d-axis) voltage of
\* exactly 0 at the tick's electrical angle: no minimum-voltage boost.
C34_StoppedMeansZeroVoltage ==
  (/\ obs.handler = "ClosedLoopFoc"
   /\ Abs(ramped_target_speed) < STOP_SPEED
   /\ Abs(obs.pi_measured) < STOP_SPEED)
  => /\ speed_pi.integral = 0
     /\ speed_pi.last_output = 0
     /\ MinVoltage(0, ramped_target_speed, obs.pi_measured) = 0
     /\ uvw_pwm = [duty |-> Duties(0, 0, MOTOR_STATUS.electrical_angle),
                   enable |-> AllEnabled]

\* a speed-loop tick that ended the ramp down to 0 with the rotor at rest
C34_Witness ==
  /\ PlainTickEnded /\ obs.handler = "ClosedLoopFoc" /\ obs.mode_before = "ClosedLoopFoc"
  /\ ramped_target_speed = 0 /\ obs.pi_measured = 0 /\ TARGET_SPEED = 0
  /\ speed_pi.integral = 0

\* ------------------------------------------------------------------------
\* Properties of the open-loop starter
\* ------------------------------------------------------------------------

\* C35: an update advances the step index by one modulo 6 exactly when the
\* time accumulated with this call has reached the step period, and leaves
\* it alone otherwise; it never lengthens the step period and never takes it
\* below the minimum; is_target_reached() survives every update; and a
\* starter that has not reached its target reaches it unless it is reset or
\* rebuilt first.
C35_StarterRamp ==
  /\ [][obs'.handler = "update"
          => /\ openloop'.current_step =
                  IF openloop.elapsed_time + 1 >= openloop.step_period
                  THEN (openloop.current_step + 1) % 6
                  ELSE openloop.current_step
             /\ openloop'.step_period <= openloop.step_period
             /\ openloop'.step_period >= openloop'.min_step_period
             /\ openloop'.step_period < openloop.step_period
                  => openloop'.current_step # openloop.current_step
             /\ is_target_reached(openloop) => is_target_reached(openloop')]_vars
  /\ (~is_target_reached(openloop))
       ~> (is_target_reached(openloop) \/ obs.handler \in {"new", "reset"})

\* an update that shortened the step period onto the minimum, from above it
C35_Witness ==
  /\ obs.handler = "update" /\ is_target_reached(openloop)
  /\ openloop.initial_step_period > openloop.min_step_period
  /\ openloop.elapsed_time = 0 /\ openloop.current_step = 3

EnabledPhases(step_state) == {ph \in 1..3 : step_state.enable[ph]}

\* C36: the pattern of every step 0..5 enables exactly two phases, gives one
\* of the two the configured duty and the other duty 0, and gives the
\* disabled phase duty 0; the pattern of the next step keeps exactly one of
\* the two enabled phases (one enabled phase is exchanged, and on every
\* second commutation the driven phase moves as well); the PWM holds the
\* pattern of the current step after every update.
C36_SixStepPatterns ==
  /\ \A step \in 0..5 :
       LET this == get_step_state(step, openloop.duty_ratio)
           next == get_step_state((step + 1) % 6, openloop.duty_ratio)
       IN /\ Cardinality(EnabledPhases(this)) = 2
          /\ Cardinality({ph \in EnabledPhases(this) :
                            this.duty[ph] = openloop.duty_ratio}) = 1
          /\ Cardinality({ph \in EnabledPhases(this) : this.duty[ph] = 0}) = 1
          /\ \A ph \in (1..3) \ EnabledPhases(this) : this.duty[ph] = 0
          /\ \/ Cardinality(EnabledPhases(this) \cap EnabledPhases(next)) = 1
             \/ this.duty # next.duty
  /\ obs.handler = "update"
       => uvw_pwm = [duty |-> get_step_state(openloop.current_step,
                                             openloop.duty_ratio).duty,
                     enable |-> get_step_state(openloop.current_step,
                                               openloop.duty_ratio).enable]

\* the PWM after the update that commutated from step 1 to step 2: phase V
\* driven, phase U off
C36_Witness ==
  /\ obs.handler = "update" /\ openloop.current_step = 2 /\ openloop.elapsed_time = 0
  /\ uvw_pwm = [duty |-> <<0, openloop.duty_ratio, 0>>, enable |-> <<FALSE, TRUE, TRUE>>]

\* ------------------------------------------------------------------------
\* Range of the estimator's index and angle
\* ------------------------------------------------------------------------

\* C37: in every state of the estimator (pole_pairs >= 1) hall_idx_base is a
\* multiple of 6 in 0 .. 6 x pole_pairs - 6, so that hall_idx_base plus any
\* normalized index 0..5 is below 6 x pole_pairs, and the mechanical angle
\* it holds is in [0, TAU).
C37_IndexAndAngleInRange ==
  /\ hall_sensor.pole_pairs >= 1
  /\ hall_sensor.hall_idx_max = 6 * hall_sensor.pole_pairs
  /\ hall_sensor.hall_idx_base % 6 = 0
  /\ hall_sensor.hall_idx_base >= 0
  /\ hall_sensor.hall_idx_base < 6 * hall_sensor.pole_pairs
  /\ \A raw \in 1..6 :
       hall_sensor.hall_idx_base + HALL_STATE_TABLE(raw) < 6 * hall_sensor.pole_pairs
  /\ hall_sensor.mechanical_angle >= 0
  /\ hall_sensor.mechanical_angle < TAU

\* an update whose interpolated angle went past a full turn and was wrapped
C37_Witness ==
  /\ obs.handler = "HallUpdate" /\ obs.hall_index # NO_STATE
  /\ hall_sensor.speed_rpm > STOP_SPEED
  /\ hall_sensor.mechanical_angle
       < (hall_sensor.hall_idx_base + obs.hall_index) * hall_sensor.angle_per_state

\* ------------------------------------------------------------------------
\* The stored period after long gaps
\* ------------------------------------------------------------------------

\* C38: after the interrupt of a Hall edge the stored period is 65536 times
\* the number of overflow ticks counted since the previous edge plus the
\* captured counter value, whatever that number is.
C38_PeriodCountsEveryOverflow ==
  (obs.handler = "tim4" /\ obs.irq.ccif)
    => /\ PERIOD_CYCLES \div ARR_COUNTS = obs.since_edge
       /\ PERIOD_CYCLES % ARR_COUNTS = obs.irq.capture

\* ------------------------------------------------------------------------
\* The voltage monitor against the CAN commands
\* ------------------------------------------------------------------------

\* C39: when an iteration of voltage_monitor_task that found the bus voltage
\* out of range returns to its ticker, MOTOR_ENABLE is false and
\* TARGET_SPEED is 0, whatever can_task wrote before or between the
\* monitor's lock operations.
C39_FaultDisablesAndZeroes ==
  [][(obs.pc["voltage_monitor"] \in {"s67", "s74"}
        /\ obs'.pc["voltage_monitor"] = "ticker")
       => (~MOTOR_ENABLE' /\ TARGET_SPEED' = 0)]_vars

\* ------------------------------------------------------------------------
\* A calibration request while the drive is disabled
\* ------------------------------------------------------------------------

\* C40: no step taken while MOTOR_ENABLE is false clears a pending
\* calibration request; a disabled tick with the request pending leaves the
\* request set, the calibrator untouched, the mode OpenLoop and the PWM off
\* (channels disabled, duties 0), and the PWM stays off until an enabled
\* tick; the first tick that finds MOTOR_ENABLE true clears the request and
\* runs the Calibration arm with a restarted calibrator.
C40_RequestWaitsForEnable ==
  /\ [][(CALIBRATION_REQUEST /\ ~MOTOR_ENABLE) => CALIBRATION_REQUEST']_vars
  /\ [][(CALIBRATION_REQUEST /\ obs'.handler = "Disabled")
          => /\ ~MOTOR_ENABLE
             /\ calibration' = calibration
             /\ control_mode' = "OpenLoop"
             /\ uvw_pwm' = [duty |-> ZeroDuty, enable |-> AllDisabled]]_vars
  /\ [][(~MOTOR_ENABLE /\ uvw_pwm = [duty |-> ZeroDuty, enable |-> AllDisabled])
          => uvw_pwm' = uvw_pwm]_vars
  /\ [][(CALIBRATION_REQUEST /\ MOTOR_ENABLE /\ obs'.handler # "none")
          => /\ ~CALIBRATION_REQUEST'
             /\ obs'.started
             /\ obs'.handler = "Calibration"
             /\ control_mode' = "Calibration"
             /\ calibration'.state = "FindDirection"]_vars

\* a disabled tick that ran with a request pending
C40_Witness ==
  /\ obs.handler = "Disabled" /\ CALIBRATION_REQUEST /\ ~MOTOR_ENABLE
  /\ uvw_pwm = [duty |-> ZeroDuty, enable |-> AllDisabled]
  /\ control_mode = "OpenLoop"
====
